---- MODULE Spec2Model ----
(***************************************************************************)
(* A model of v-skills: the node_modules walker (traverse.ts), the skill   *)
(* file writer (linker.ts), the workspace detector (workspace.ts) and the  *)
(* generate orchestration.                                                 *)
(*                                                                         *)
(* Strings that the code inspects character by character (package names,   *)
(* include/exclude patterns, lines of pnpm-workspace.yaml) are sequences   *)
(* of one-character strings.  Texts whose content is never inspected       *)
(* (README, description, ...) are kept as "none" (undefined), "empty"      *)
(* (the empty string, falsy) or "text" (a non-empty string, truthy).       *)
(***************************************************************************)
EXTENDS Integers, Sequences, FiniteSets, TLC

VARIABLES
    nmRoot,      \* walker: the dependency root handed to traverseNodeModules
    walkOpts,    \* walker: the options {include, exclude}
    walkPc,      \* walker: "idle" | "start" | "iter" | "done" | "raised"
    walkPos,     \* walker: index of the next top-level entry of the listing
    yielded,     \* walker: the records yielded so far, in order
    pnpmDoc,     \* pnpm parser: the lines of pnpm-workspace.yaml as written
    pnpmContent, \* pnpm parser: the text handed to parsePnpmWorkspace
    pnpmPc,      \* pnpm parser: "idle" | "call" | "returned"
    parsed,      \* pnpm parser: the list parsePnpmWorkspace returned
    project,     \* detector: the marker files and directories of cwd
    detPc,       \* detector: "idle" | "call" | "returned" | "raised"
    detResult,   \* detector: the WorkspaceInfo detectWorkspace returned
    outFiles,    \* output directory: target path -> content of the file there
    outDirs,     \* output directory: the directories that exist under it
    linkPkg,     \* linker: the PackageInfo handed to createSkillFile
    linkFolder,  \* linker: options.useFolderStructure
    linkPc,      \* linker: "idle" | "call" | "returned"
    linkResult,  \* linker: what createSkillFile returned
    linkHistory, \* linker: what the calls so far returned, in order
    genProject,  \* generate: the project directory (options.cwd)
    genOpts,     \* generate: include, exclude and directOnly
    genPc,       \* generate: "idle" | "start" | "walk" | "render" | "done" | "failed"
                 \*           | "cleaned" (clean has returned)
    genWorkspace,\* generate: the detected WorkspaceInfo
    genPaths,    \* generate: the dependency roots, in processing order
    genPathPos,  \* generate: index of the next dependency root to walk
    genDirect,   \* generate: the direct-dependency names of the root manifest
    genRecords,  \* generate: the retained package records
    genPos,      \* generate: index of the next record to render
    skills,      \* generate: the SkillFiles rendered so far (result.skills)
    packagesScanned, \* generate: result.packagesScanned
    globProject, \* expander: the directory tree below the root
    globPattern, \* expander: the pattern handed to expandGlobs
    globPc,      \* expander: "idle" | "call" | "returned"
    globResult,  \* expander: the paths expandGlobs returned
    clFile,      \* changelog: the changelog file of the package directory
    clPc,        \* changelog: "idle" | "file" | "gathered" | "rendered"
    clBundle,    \* changelog: docs.changelog of the extracted bundle
    clSection,   \* changelog: the 'Recent Changes' section of the document
    today,       \* the date new Date() gives, as a day number
    genRun,      \* repeated generate: the number of the current run
    firstOut,    \* repeated generate: the output files the first run left
    cfgDir,      \* configuration: the config files and package.json of cwd
    cfgPc,       \* configuration: "idle" | "load" | "loaded" | "raised" | "merged"
    cfgLoaded,   \* configuration: what loadConfig returned or raised
    cfgCli,      \* configuration: the CLI options handed to mergeConfig
    cfgMerged,   \* configuration: the options mergeConfig returned
    repoIn,      \* repository line: pkg.repository of the record
    repoPc,      \* repository line: "idle" | "call" | "rendered"
    repoLine,    \* repository line: the Repository line of the document
    gatherPkg,   \* gatherer: the package directory and its dependency root
    gatherPc,    \* gatherer: "idle" | "docs" | "types" | "extra" | "done" | "raised"
    gatherDocs   \* gatherer: the fields of the bundle set so far

walkVars == <<nmRoot, walkOpts, walkPc, walkPos, yielded>>
pnpmVars == <<pnpmDoc, pnpmContent, pnpmPc, parsed>>
detVars == <<project, detPc, detResult>>
outVars == <<outFiles, outDirs>>
linkVars == <<linkPkg, linkFolder, linkPc, linkResult, linkHistory>>

genVars == <<genProject, genOpts, genPc, genWorkspace, genPaths, genPathPos, genDirect,
             genRecords, genPos, skills, packagesScanned>>

globVars == <<globProject, globPattern, globPc, globResult>>

\* the components added after the orchestrator
clVars == <<clFile, clPc, clBundle, clSection>>

regenVars == <<today, genRun, firstOut>>

cfgVars == <<cfgDir, cfgPc, cfgLoaded, cfgCli, cfgMerged>>

repoVars == <<repoIn, repoPc, repoLine>>

gatherVars == <<gatherPkg, gatherPc, gatherDocs>>

docVars == <<repoVars, gatherVars>>

restVars == <<globVars, clVars, regenVars, cfgVars, docVars>>

coreVars == <<walkVars, pnpmVars, detVars, outVars, linkVars, genVars>>

vars == <<coreVars, restVars>>

(***************************************************************************)
(* Bounds of the model.                                                    *)
(***************************************************************************)
MaxEntries == 2
MaxScoped == 2
MaxLines == 5
MaxFileLines == 204
MaxCalls == 3
MaxRuns == 2
MaxDays == 2

(***************************************************************************)
(* String helpers (JavaScript String.prototype).                           *)
(***************************************************************************)
Includes(s, c) == \E i \in 1..Len(s) : s[i] = c

StartsWith(s, p) == Len(s) >= Len(p) /\ SubSeq(s, 1, Len(p)) = p

(***************************************************************************)
(* new RegExp('^' + pattern.replace(/\*/g, '.*') + '$').test(name).        *)
(* Every '*' of the pattern becomes the regex '.*'; a '.' of the pattern   *)
(* is copied and is the regex wildcard for one character; a '(' of the     *)
(* pattern is copied and opens a group that nothing closes, so that the    *)
(* RegExp constructor throws a SyntaxError; every other character of the   *)
(* model's alphabet is a literal.                                          *)
(***************************************************************************)
RegExpThrows(pattern) == Includes(pattern, "(")

RECURSIVE RegexTest(_, _)
RegexTest(pattern, name) ==
    IF pattern = <<>> THEN name = <<>>
    ELSE IF Head(pattern) = "*"
         THEN \/ RegexTest(Tail(pattern), name)
              \/ name # <<>> /\ RegexTest(pattern, Tail(name))
    ELSE /\ name # <<>>
         /\ (Head(pattern) = "." \/ Head(pattern) = Head(name))
         /\ RegexTest(Tail(pattern), Tail(name))

matchPattern(name, pattern) ==
    IF Includes(pattern, "*")
    THEN RegexTest(pattern, name)
    ELSE name = pattern \/ StartsWith(name, pattern \o <<"/">>)

\* matchPattern(name, pattern) throws: the pattern is compiled only when it
\* holds a '*'
matchPatternThrows(pattern) == Includes(pattern, "*") /\ RegExpThrows(pattern)

\* patterns.some(pattern => matchPattern(name, pattern)) throws: a pattern that
\* cannot be compiled is reached before one that matches
RECURSIVE SomeThrows(_, _)
SomeThrows(name, patterns) ==
    IF patterns = <<>> THEN FALSE
    ELSE IF matchPatternThrows(Head(patterns)) THEN TRUE
    ELSE IF matchPattern(name, Head(patterns)) THEN FALSE
    ELSE SomeThrows(name, Tail(patterns))

\* An optional list option (include?: string[]) is [defined, list]; an absent
\* option is Absent.  patterns.some(pattern => matchPattern(name, pattern)):
SomeMatch(name, patterns) ==
    \E i \in 1..Len(patterns) : matchPattern(name, patterns[i])

Absent == [defined |-> FALSE, list |-> <<>>]

Given(list) == [defined |-> TRUE, list |-> list]

shouldIncludeIncludeFirst(name, include, exclude) ==
    IF include.defined /\ Len(include.list) > 0
    THEN SomeMatch(name, include.list)
    ELSE ~(exclude.defined /\ SomeMatch(name, exclude.list))

shouldInclude(name, include, exclude) ==
    IF exclude.defined /\ SomeMatch(name, exclude.list) THEN FALSE
    ELSE IF include.defined /\ Len(include.list) > 0
         THEN SomeMatch(name, include.list)
    ELSE TRUE

\* shouldInclude(name, include, exclude) throws
shouldIncludeThrows(name, include, exclude) ==
    IF exclude.defined /\ SomeThrows(name, exclude.list) THEN TRUE
    ELSE IF exclude.defined /\ SomeMatch(name, exclude.list) THEN FALSE
    ELSE include.defined /\ Len(include.list) > 0 /\ SomeThrows(name, include.list)

(***************************************************************************)
(* Directory entries.  kind: "dir", "file", "linkdir" (symlink to a        *)
(* directory), "linkfile" (symlink to a file), "dangling" (symlink whose   *)
(* target is gone, stat throws).                                           *)
(***************************************************************************)
\* entry.isDirectory() alone
isDirectoryOnly(entry) == entry.kind = "dir"

isDirectoryOrSymlinkToDir(entry) ==
    CASE entry.kind = "dir" -> TRUE
      [] entry.kind = "linkdir" -> TRUE
      [] entry.kind = "linkfile" -> FALSE
      [] entry.kind = "dangling" -> FALSE
      [] OTHER -> FALSE

(***************************************************************************)
(* A package directory, as far as the walker and the gatherer look at it.  *)
(*   manifest: "missing" | "unparsable" (readJson gives null),             *)
(*             "noversion" (an object without a truthy version),           *)
(*             "badtypes" (a version, and a types field that is no string: *)
(*                         path.join throws in findTypeDefinitions),       *)
(*             "ok"                                                        *)
(*   readme, changelog, license: the first candidate file that exists is   *)
(*             "absent", "unreadable", "empty" or "text"                   *)
(*   docs:     a docs folder with at least one documentation file          *)
(*   types:    a type definition file is found                             *)
(*   extra:    the number of extra documentation files that exist          *)
(***************************************************************************)
readJsonIsNull(manifest) == manifest \in {"missing", "unparsable"}

\* readTextFile(path) ?? undefined
readTextFile(file) ==
    CASE file = "text" -> "text"
      [] file = "empty" -> "empty"
      [] OTHER -> "none"

gatherDocumentation(dir) ==
    [ readmePath    |-> dir.readme # "absent",
      readme        |-> IF dir.readme # "absent" THEN readTextFile(dir.readme) ELSE "none",
      changelogPath |-> dir.changelog # "absent",
      changelog     |-> IF dir.changelog # "absent" THEN readTextFile(dir.changelog) ELSE "none",
      licensePath   |-> dir.license # "absent",
      license       |-> IF dir.license # "absent" THEN readTextFile(dir.license) ELSE "none",
      docsPath      |-> dir.docs,
      typesPath     |-> dir.types,
      additionalDocs |-> dir.extra ]

\* The outcome of extractPackageInfo: "null", "threw" or "info" with the record.
NoInfo == [name |-> <<>>, version |-> "", packagePath |-> <<>>]

extractPackageInfo(dir, name, nodeModulesPath) ==
    IF readJsonIsNull(dir.manifest) \/ dir.manifest = "noversion"
    THEN [kind |-> "null", info |-> NoInfo]
    ELSE IF dir.manifest = "badtypes"
    THEN [kind |-> "threw", info |-> NoInfo]
    ELSE [kind |-> "info",
          info |-> [ name |-> name,
                     version |-> dir.version,
                     description |-> dir.description,
                     homepage |-> dir.homepage,
                     packagePath |-> <<nodeModulesPath, name>>,
                     docs |-> gatherDocumentation(dir),
                     readme |-> gatherDocumentation(dir).readme,
                     readmePath |-> gatherDocumentation(dir).readmePath ]]

(***************************************************************************)
(* traverseNodeModules, one top-level entry at a time.  The outcome of an  *)
(* entry is the records it yields and whether an exception escaped (the    *)
(* enclosing try/catch then ends the whole traversal).                     *)
(***************************************************************************)
RECURSIVE ScopedLoop(_, _, _, _, _)
ScopedLoop(children, i, scopeName, opts, nodeModulesPath) ==
    IF i > Len(children) THEN [out |-> <<>>, threw |-> FALSE]
    ELSE
      LET child == children[i]
          fullName == scopeName \o <<"/">> \o child.name
          rest == ScopedLoop(children, i + 1, scopeName, opts, nodeModulesPath)
      IN  IF ~isDirectoryOrSymlinkToDir(child) THEN rest
          ELSE IF shouldIncludeThrows(fullName, opts.include, opts.exclude)
          THEN [out |-> <<>>, threw |-> TRUE]
          ELSE IF ~shouldInclude(fullName, opts.include, opts.exclude) THEN rest
          ELSE LET r == extractPackageInfo(child.pkg, fullName, nodeModulesPath)
               IN  CASE r.kind = "threw" -> [out |-> <<>>, threw |-> TRUE]
                     [] r.kind = "null" -> rest
                     [] OTHER -> [out |-> <<r.info>> \o rest.out, threw |-> rest.threw]

TraverseEntry(entry, opts, nodeModulesPath) ==
    IF ~isDirectoryOrSymlinkToDir(entry) THEN [out |-> <<>>, threw |-> FALSE]
    ELSE IF StartsWith(entry.name, <<"@">>)
    THEN IF ~entry.readable
         THEN [out |-> <<>>, threw |-> TRUE]       \* readdir(scopePath) throws
         ELSE ScopedLoop(entry.children, 1, entry.name, opts, nodeModulesPath)
    ELSE IF StartsWith(entry.name, <<".">>) THEN [out |-> <<>>, threw |-> FALSE]
    ELSE IF shouldIncludeThrows(entry.name, opts.include, opts.exclude)
    THEN [out |-> <<>>, threw |-> TRUE]
    ELSE IF ~shouldInclude(entry.name, opts.include, opts.exclude)
    THEN [out |-> <<>>, threw |-> FALSE]
    ELSE LET r == extractPackageInfo(entry.pkg, entry.name, nodeModulesPath)
         IN  CASE r.kind = "threw" -> [out |-> <<>>, threw |-> TRUE]
               [] r.kind = "null" -> [out |-> <<>>, threw |-> FALSE]
               [] OTHER -> [out |-> <<r.info>>, threw |-> FALSE]

\* catch { /* node_modules doesn't exist or can't be read */ }: the generator
\* returns normally.
TraverseCatchRethrows == "raised"

TraverseCatch == "done"

(***************************************************************************)
(* The inputs of the walker: dependency roots and options.                 *)
(***************************************************************************)
Content(readme, changelog, license, docs, types, extra, description, homepage) ==
    [ readme |-> readme, changelog |-> changelog, license |-> license,
      docs |-> docs, types |-> types, extra |-> extra,
      description |-> description, homepage |-> homepage ]

NoContent == Content("absent", "absent", "absent", FALSE, FALSE, 0, "none", "none")
ReadmeOnly == Content("text", "absent", "absent", FALSE, FALSE, 0, "none", "none")
LicenseOnly == Content("absent", "absent", "text", FALSE, FALSE, 0, "none", "none")
DescOnly == Content("absent", "absent", "absent", FALSE, FALSE, 0, "text", "none")

PkgDir(manifest, version, content) ==
    [manifest |-> manifest, version |-> version] @@ content

Manifests == {"missing", "unparsable", "noversion", "badtypes", "ok"}

EntryKinds == {"dir", "file", "linkdir", "linkfile", "dangling"}

Entry(name, kind, readable, children, pkg) ==
    [name |-> name, kind |-> kind, readable |-> readable,
     children |-> children, pkg |-> pkg]

Child(name, kind, pkg) == [name |-> name, kind |-> kind, pkg |-> pkg]

\* all sequences of at most n elements of S with pairwise distinct names
RECURSIVE DistinctSeqs(_, _)
DistinctSeqs(S, n) ==
    IF n = 0 THEN {<<>>}
    ELSE LET shorter == DistinctSeqs(S, n - 1)
         IN  shorter \cup
             UNION { { Append(q, e) :
                         e \in { x \in S : \A i \in 1..Len(q) : q[i].name # x.name } } :
                     q \in { t \in shorter : Len(t) = n - 1 } }

ScopedChoices ==
    { Child(<<"a">>, "dir", PkgDir("ok", "1", ReadmeOnly)),
      Child(<<"a">>, "dir", PkgDir("missing", "1", ReadmeOnly)),
      Child(<<"c">>, "linkdir", PkgDir("ok", "1", DescOnly)),
      Child(<<"c">>, "file", PkgDir("missing", "1", NoContent)),
      Child(<<".", "h">>, "dir", PkgDir("ok", "1", ReadmeOnly)) }

TopChoices ==
    { Entry(<<"a">>, "dir", TRUE, <<>>, PkgDir(m, "1", ReadmeOnly)) : m \in Manifests }
    \cup
    { Entry(<<"b">>, k, TRUE, <<>>, PkgDir("ok", "2", DescOnly)) : k \in EntryKinds }
    \cup
    { Entry(<<".", "h">>, "dir", TRUE, <<>>, PkgDir("ok", "1", ReadmeOnly)) }
    \cup
    { Entry(<<"@", "s">>, "dir", FALSE, <<>>, PkgDir("missing", "1", NoContent)) }
    \cup
    { Entry(<<"@", "s">>, "dir", TRUE, ch, PkgDir("missing", "1", NoContent)) :
        ch \in DistinctSeqs(ScopedChoices, MaxScoped) }

WalkRoots ==
    { [state |-> "missing", entries |-> <<>>],
      [state |-> "unreadable", entries |-> <<>>] }
    \cup
    { [state |-> "ok", entries |-> q] :
        q \in DistinctSeqs(TopChoices, MaxEntries) }

IncludeChoices ==
    { Absent, Given(<<>>), Given(<< <<"a">> >>), Given(<< <<"@", "s", "/", "*">> >>) }

ExcludeChoices ==
    { Absent, Given(<< <<"a">> >>), Given(<< <<"@", "s">> >>), Given(<< <<"*">> >>),
      Given(<< <<".", "*">> >>), Given(<< <<"a">>, <<"(", "*">> >>) }

WalkOptions ==
    { [include |-> i, exclude |-> e] : i \in IncludeChoices, e \in ExcludeChoices }

NodeModules == <<"node_modules">>

(***************************************************************************)
(* The walker as a state machine: one call of traverseNodeModules.         *)
(***************************************************************************)
WalkIdle ==
    /\ nmRoot = [state |-> "missing", entries |-> <<>>]
    /\ walkOpts = [include |-> Absent, exclude |-> Absent]
    /\ walkPc = "idle"
    /\ walkPos = 1
    /\ yielded = <<>>

WalkInit ==
    /\ nmRoot \in WalkRoots
    /\ walkOpts \in WalkOptions
    /\ walkPc = "start"
    /\ walkPos = 1
    /\ yielded = <<>>

\* const entries = await readdir(nodeModulesPath, { withFileTypes: true })
WalkReaddir ==
    /\ walkPc = "start"
    /\ walkPc' = IF nmRoot.state = "ok" THEN "iter" ELSE TraverseCatch
    /\ UNCHANGED <<nmRoot, walkOpts, walkPos, yielded>>
    /\ UNCHANGED <<pnpmVars, detVars, outVars, linkVars, genVars, restVars>>

\* one iteration of for (const entry of entries)
WalkEntry ==
    /\ walkPc = "iter"
    /\ walkPos <= Len(nmRoot.entries)
    /\ LET r == TraverseEntry(nmRoot.entries[walkPos], walkOpts, NodeModules)
       IN  /\ yielded' = yielded \o r.out
           /\ walkPc' = IF r.threw THEN TraverseCatch ELSE "iter"
    /\ walkPos' = walkPos + 1
    /\ UNCHANGED <<nmRoot, walkOpts>>
    /\ UNCHANGED <<pnpmVars, detVars, outVars, linkVars, genVars, restVars>>

\* the listing is exhausted: the generator returns
WalkReturn ==
    /\ walkPc = "iter"
    /\ walkPos > Len(nmRoot.entries)
    /\ walkPc' = "done"
    /\ UNCHANGED <<nmRoot, walkOpts, walkPos, yielded>>
    /\ UNCHANGED <<pnpmVars, detVars, outVars, linkVars, genVars, restVars>>

WalkNext == WalkReaddir \/ WalkEntry \/ WalkReturn

(***************************************************************************)
(* Claims about the walker (checked under SpecWalk).                       *)
(***************************************************************************)
YieldedNames == { yielded[i].name : i \in 1..Len(yielded) }

Excluded(name) ==
    walkOpts.exclude.defined /\ SomeMatch(name, walkOpts.exclude.list)

Included(name) ==
    walkOpts.include.defined /\ SomeMatch(name, walkOpts.include.list)

\* C1: a name that matches at least one exclude pattern is never yielded,
\* whatever the include list holds.
C1_ExcludedNeverYielded ==
    \A i \in 1..Len(yielded) : ~Excluded(yielded[i].name)

\* C1 witness: the traversal has finished over a root that holds a valid
\* package directory whose name matches an exclude pattern and an include
\* pattern, and nothing was yielded.
C1_Witness ==
    /\ walkPc = "done"
    /\ walkPos > Len(nmRoot.entries)
    /\ \E i \in 1..Len(nmRoot.entries) :
          LET e == nmRoot.entries[i]
          IN  /\ e.name = <<"@", "s">> /\ e.readable
              /\ \E j \in 1..Len(e.children) :
                    /\ e.children[j].kind = "dir"
                    /\ e.children[j].pkg.manifest = "ok"
                    /\ Excluded(e.name \o <<"/">> \o e.children[j].name)
                    /\ Included(e.name \o <<"/">> \o e.children[j].name)
    /\ yielded = <<>>

\* The package directories of a dependency root: the directory-like entries
\* of the root that are neither hidden nor a scope, and the directory-like
\* entries of its @scope directories.  Each is <<name, package directory>>.
PackageDirs(root) ==
    { <<root.entries[i].name, root.entries[i].pkg>> :
        i \in { k \in 1..Len(root.entries) :
                  /\ isDirectoryOrSymlinkToDir(root.entries[k])
                  /\ ~StartsWith(root.entries[k].name, <<".">>)
                  /\ ~StartsWith(root.entries[k].name, <<"@">>) } }
    \cup
    UNION { { <<root.entries[i].name \o <<"/">> \o root.entries[i].children[j].name,
               root.entries[i].children[j].pkg>> :
                j \in { k \in 1..Len(root.entries[i].children) :
                          isDirectoryOrSymlinkToDir(root.entries[i].children[k]) } } :
            i \in { k \in 1..Len(root.entries) :
                      /\ isDirectoryOrSymlinkToDir(root.entries[k])
                      /\ StartsWith(root.entries[k].name, <<"@">>) } }

\* the names of the package directories whose package.json is readable and
\* has a version
VersionedNames(root) ==
    { d[1] : d \in { x \in PackageDirs(root) : x[2].manifest \in {"ok", "badtypes"} } }

NoFilter ==
    /\ ~(walkOpts.include.defined /\ Len(walkOpts.include.list) > 0)
    /\ ~(walkOpts.exclude.defined /\ Len(walkOpts.exclude.list) > 0)

\* C2: with no filter, the finished traversal has yielded exactly one record
\* for every package directory with a readable, versioned package.json and
\* no record for any other directory.
C2_OneRecordPerVersionedDir ==
    (walkPc = "done" /\ NoFilter) =>
        /\ \A n \in VersionedNames(nmRoot) :
              Cardinality({ i \in 1..Len(yielded) : yielded[i].name = n }) = 1
        /\ YieldedNames \subseteq VersionedNames(nmRoot)

\* C3: the traversal never raises; over a missing or unreadable root it ends
\* at once with an empty sequence.
C3_MissingRootYieldsNothing ==
    /\ walkPc # "raised"
    /\ (nmRoot.state # "ok" /\ walkPc # "start") => (walkPc = "done" /\ yielded = <<>>)

\* C3 witness: the listing of a missing root failed and the generator returned.
C3_Witness ==
    /\ nmRoot.state = "missing"
    /\ walkPc = "done"
    /\ yielded = <<>>

\* the entries a record can come from: the entries of the root that are no
\* scope, and the entries of its scope directories under their full name
Candidates(root) ==
    { [name |-> root.entries[i].name, kind |-> root.entries[i].kind,
       pkg |-> root.entries[i].pkg, own |-> root.entries[i].name] :
        i \in { k \in 1..Len(root.entries) : root.entries[k].name[1] # "@" } }
    \cup
    UNION { { [name |-> root.entries[i].name \o <<"/">> \o root.entries[i].children[j].name,
               kind |-> root.entries[i].children[j].kind,
               pkg |-> root.entries[i].children[j].pkg,
               own |-> root.entries[i].children[j].name] :
                j \in 1..Len(root.entries[i].children) } :
            i \in { k \in 1..Len(root.entries) :
                      /\ root.entries[k].name[1] = "@"
                      /\ root.entries[k].kind \in {"dir", "linkdir"}
                      /\ root.entries[k].readable } }

DirLike(kind) == kind \in {"dir", "linkdir"}

Hidden(own) == own[1] = "."

\* no entry of the root makes the traversal stop early: every scope directory
\* can be listed and every types field is a string
NoThrowingEntry(root) ==
    /\ \A i \in 1..Len(root.entries) :
          ~(root.entries[i].name[1] = "@" /\ ~root.entries[i].readable)
    /\ \A c \in Candidates(root) : c.pkg.manifest # "badtypes"

\* C22: only entries that are directories or symbolic links to directories
\* yield a record, and the record of a linked package has the name, version
\* and readme of its package directory; with nothing filtered, a package
\* behind a link to a directory is yielded like one in a real directory, a
\* dangling link or a link to a file yields nothing, and nothing is raised.
C22_DirectoryOrLinkToDirectory ==
    /\ walkPc # "raised"
    /\ \A i \in 1..Len(yielded) :
          \E c \in Candidates(nmRoot) :
              /\ c.name = yielded[i].name
              /\ DirLike(c.kind)
              /\ yielded[i].version = c.pkg.version
              /\ yielded[i].readme = (IF c.pkg.readme = "absent" THEN "none"
                                      ELSE IF c.pkg.readme = "unreadable" THEN "none"
                                      ELSE c.pkg.readme)
    /\ (walkPc = "done" /\ NoFilter /\ NoThrowingEntry(nmRoot)) =>
          \A c \in Candidates(nmRoot) :
              (c.pkg.manifest = "ok" /\ ~Hidden(c.own)) =>
                  (c.name \in YieldedNames <=> DirLike(c.kind))

\* C22 witness: the finished traversal yielded the package behind a link to a
\* directory and nothing for the link to a file next to it
C22_Witness ==
    /\ walkPc = "done"
    /\ \E c, d \in Candidates(nmRoot) :
          /\ c.kind = "linkdir" /\ c.pkg.manifest = "ok" /\ c.name \in YieldedNames
          /\ d.kind \in {"linkfile", "dangling"} /\ d.pkg.manifest = "ok"
          /\ d.name \notin YieldedNames

\* the last segment of a package name
OwnName(name) ==
    IF Includes(name, "/")
    THEN SubSeq(name, (CHOOSE i \in 1..Len(name) : name[i] = "/") + 1, Len(name))
    ELSE name

\* C27: no record is yielded for a directory whose own name begins with '.',
\* at the top level of the root or inside a scope directory.
C27_NoHiddenYielded ==
    \A i \in 1..Len(yielded) : OwnName(yielded[i].name)[1] # "."

\* the part of C27 that holds: hidden entries of the root itself
C27_NoHiddenTopLevel ==
    \A i \in 1..Len(yielded) : yielded[i].name[1] # "."

\* C28: with no filter, a scope directory that cannot be listed does not keep
\* the valid package directories of the other entries from being yielded.
C28_UnreadableScopeSkipped ==
    ( /\ walkPc = "done"
      /\ NoFilter
      /\ \A c \in Candidates(nmRoot) : c.pkg.manifest # "badtypes" )
    => \A c \in Candidates(nmRoot) :
          (DirLike(c.kind) /\ c.pkg.manifest = "ok" /\ ~Hidden(c.own))
              => c.name \in YieldedNames

\* a pattern in which only '*' is a wildcard, against the whole name
RECURSIVE StarMatch(_, _)
StarMatch(pattern, name) ==
    IF pattern = <<>> THEN name = <<>>
    ELSE IF Head(pattern) = "*"
    THEN \E k \in 0..Len(name) : StarMatch(Tail(pattern), SubSeq(name, k + 1, Len(name)))
    ELSE name # <<>> /\ Head(pattern) = Head(name) /\ StarMatch(Tail(pattern), Tail(name))

PatternMatch(name, pattern) ==
    IF \E i \in 1..Len(pattern) : pattern[i] = "*"
    THEN StarMatch(pattern, name)
    ELSE \/ name = pattern
         \/ /\ Len(name) > Len(pattern)
            /\ SubSeq(name, 1, Len(pattern) + 1) = pattern \o <<"/">>

\* the filter with patterns in which only '*' is a wildcard
Passes(name) ==
    /\ ~( /\ walkOpts.exclude.defined
          /\ \E i \in 1..Len(walkOpts.exclude.list) :
                PatternMatch(name, walkOpts.exclude.list[i]) )
    /\ (walkOpts.include.defined /\ Len(walkOpts.include.list) > 0) =>
          \E i \in 1..Len(walkOpts.include.list) :
              PatternMatch(name, walkOpts.include.list[i])

\* C29: in a pattern with '*' only '*' is a wildcard: a record is yielded only
\* for a name that passes the filter read that way, and, whatever other
\* characters the patterns hold, every valid package directory whose name
\* passes is yielded.
C29_OnlyStarIsWildcard ==
    /\ \A i \in 1..Len(yielded) : Passes(yielded[i].name)
    /\ (walkPc = "done" /\ NoThrowingEntry(nmRoot)) =>
          \A c \in Candidates(nmRoot) :
              ( /\ DirLike(c.kind) /\ c.pkg.manifest = "ok" /\ ~Hidden(c.own)
                /\ Passes(c.name) )
              => c.name \in YieldedNames

PlainPatterns ==
    \A list \in { walkOpts.exclude.list, walkOpts.include.list } :
        \A i \in 1..Len(list) : \A j \in 1..Len(list[i]) : list[i][j] \notin {".", "("}

\* the part of C29 that holds: patterns without '.' and '('
C29_PlainPatterns ==
    PlainPatterns => C29_OnlyStarIsWildcard

(***************************************************************************)
(* parsePnpmWorkspace (workspace.ts).  A line is a sequence of characters; *)
(* the words "packages:", "k:", "c", "x", "y" are literal runs of          *)
(* characters without blanks, quotes, '-' or '#'.                          *)
(***************************************************************************)
RECURSIVE TrimStart(_)
TrimStart(s) == IF s # <<>> /\ Head(s) = " " THEN TrimStart(Tail(s)) ELSE s

RECURSIVE TrimEnd(_)
TrimEnd(s) ==
    IF s # <<>> /\ s[Len(s)] = " " THEN TrimEnd(SubSeq(s, 1, Len(s) - 1)) ELSE s

Trim(s) == TrimEnd(TrimStart(s))

IsQuote(c) == c = "'" \/ c = "\""

\* .replace(/^['"]|['"]$/g, '')
StripQuotes(s) ==
    LET a == IF s # <<>> /\ IsQuote(Head(s)) THEN Tail(s) ELSE s
    IN  IF a # <<>> /\ IsQuote(a[Len(a)]) THEN SubSeq(a, 1, Len(a) - 1) ELSE a

PackagesKey == <<"packages:">>

\* the for loop over the lines, from line i on; `break` ends the recursion
RECURSIVE ParseLines(_, _, _)
ParseLines(lines, i, inPackages) ==
    IF i > Len(lines) THEN <<>>
    ELSE LET trimmed == Trim(lines[i])
         IN  IF trimmed = PackagesKey THEN ParseLines(lines, i + 1, TRUE)
             ELSE IF ~inPackages THEN ParseLines(lines, i + 1, FALSE)
             ELSE IF StartsWith(trimmed, <<"-">>)
             THEN LET pkg == StripQuotes(Trim(Tail(trimmed)))
                  IN  (IF pkg # <<>> THEN <<pkg>> ELSE <<>>)
                      \o ParseLines(lines, i + 1, TRUE)
             ELSE IF trimmed # <<>> /\ ~StartsWith(trimmed, <<"#">>) THEN <<>>
             ELSE ParseLines(lines, i + 1, TRUE)

RECURSIVE ParseLinesNoBreak(_, _, _)
ParseLinesNoBreak(lines, i, inPackages) ==
    IF i > Len(lines) THEN <<>>
    ELSE LET trimmed == Trim(lines[i])
         IN  IF trimmed = PackagesKey THEN ParseLinesNoBreak(lines, i + 1, TRUE)
             ELSE IF ~inPackages THEN ParseLinesNoBreak(lines, i + 1, FALSE)
             ELSE IF StartsWith(trimmed, <<"-">>)
             THEN LET pkg == StripQuotes(Trim(Tail(trimmed)))
                  IN  (IF pkg # <<>> THEN <<pkg>> ELSE <<>>)
                      \o ParseLinesNoBreak(lines, i + 1, TRUE)
             ELSE ParseLinesNoBreak(lines, i + 1, TRUE)

parsePnpmWorkspaceNoBreak(content) == ParseLinesNoBreak(content, 1, FALSE)

parsePnpmWorkspace(content) == ParseLines(content, 1, FALSE)

(***************************************************************************)
(* The lines a pnpm-workspace.yaml is written with, and their text.        *)
(***************************************************************************)
KeyLine == [kind |-> "key", quote |-> "none", text |-> <<>>, indent |-> FALSE]
BlankLine(indent) == [kind |-> "blank", quote |-> "none", text |-> <<>>, indent |-> indent]
CommentLine == [kind |-> "comment", quote |-> "none", text |-> <<"c">>, indent |-> TRUE]
OtherLine == [kind |-> "other", quote |-> "none", text |-> <<"k:">>, indent |-> FALSE]
ItemLine(quote, text, indent) ==
    [kind |-> "item", quote |-> quote, text |-> text, indent |-> indent]

QuoteChar(quote) ==
    CASE quote = "single" -> <<"'">>
      [] quote = "double" -> <<"\"">>
      [] OTHER -> <<>>

RenderLine(l) ==
    CASE l.kind = "key" -> PackagesKey
      [] l.kind = "blank" -> IF l.indent THEN <<" ", " ">> ELSE <<>>
      [] l.kind = "comment" -> <<" ", "#", " ">> \o l.text
      [] l.kind = "other" -> l.text
      [] OTHER -> (IF l.indent THEN <<" ", " ", "-", " ">> ELSE <<"-">>)
                  \o QuoteChar(l.quote) \o l.text \o QuoteChar(l.quote)
                  \o (IF l.indent THEN <<>> ELSE <<" ">>)

RECURSIVE RenderDoc(_)
RenderDoc(doc) ==
    IF doc = <<>> THEN <<>> ELSE <<RenderLine(Head(doc))>> \o RenderDoc(Tail(doc))

LineChoices ==
    { KeyLine, BlankLine(TRUE), CommentLine, OtherLine,
      ItemLine("none", <<"x">>, TRUE), ItemLine("single", <<"x">>, FALSE),
      ItemLine("double", <<"y">>, TRUE), ItemLine("single", <<>>, TRUE) }

PnpmDocs == UNION { [1..n -> LineChoices] : n \in 0..MaxLines }

PnpmIdle ==
    /\ pnpmDoc = <<>>
    /\ pnpmContent = <<>>
    /\ pnpmPc = "idle"
    /\ parsed = <<>>

PnpmInit ==
    /\ pnpmDoc \in PnpmDocs
    /\ pnpmContent = RenderDoc(pnpmDoc)
    /\ pnpmPc = "call"
    /\ parsed = <<>>

ParsePnpm ==
    /\ pnpmPc = "call"
    /\ parsed' = parsePnpmWorkspace(pnpmContent)
    /\ pnpmPc' = "returned"
    /\ UNCHANGED <<pnpmDoc, pnpmContent>>
    /\ UNCHANGED <<walkVars, detVars, outVars, linkVars, genVars, restVars>>

(***************************************************************************)
(* Claims about the pnpm parser (checked under SpecPnpm).                  *)
(***************************************************************************)
KeyLines(doc) == { i \in 1..Len(doc) : doc[i].kind = "key" }

\* the first line after line k that is neither blank, a comment nor an item
ListEnd(doc, k) ==
    IF \E i \in (k + 1)..Len(doc) : doc[i].kind = "other"
    THEN CHOOSE i \in (k + 1)..Len(doc) :
            /\ doc[i].kind = "other"
            /\ \A j \in (k + 1)..(i - 1) : doc[j].kind # "other"
    ELSE Len(doc) + 1

RECURSIVE ItemTexts(_, _, _)
ItemTexts(doc, from, to) ==
    IF from > to THEN <<>>
    ELSE (IF doc[from].kind = "item" /\ doc[from].text # <<>>
          THEN <<doc[from].text>> ELSE <<>>)
         \o ItemTexts(doc, from + 1, to)

ExpectedPackages(doc) ==
    IF KeyLines(doc) = {} THEN <<>>
    ELSE LET k == CHOOSE i \in KeyLines(doc) : \A j \in KeyLines(doc) : i <= j
         IN  ItemTexts(doc, k + 1, ListEnd(doc, k) - 1)

JsonField(kind, list) == [kind |-> kind, list |-> list]

TreeNames(proj) == { proj.tree[i].name : i \in 1..Len(proj.tree) }

\* fileExists(join(cwd, name)) for a one-segment name
DirEntryExists(proj, name) == name \in TreeNames(proj)

Returned(type, packages) ==
    [status |-> "returned", type |-> type, packages |-> packages]

Raised == [status |-> "raised", type |-> "none", packages |-> JsonField("list", <<>>)]

\* nxJson?.workspaceLayout?.appsDir || 'apps'
NxDir(field, default) == IF field.kind = "name" THEN field.list ELSE default

\* detectNxPackages; path.join throws on an appsDir or libsDir that is no string
detectNxPackagesThrows(proj) ==
    /\ proj.nx.state = "obj"
    /\ (proj.nx.appsDir.kind = "badtype" \/ proj.nx.libsDir.kind = "badtype")

detectNxPackages(proj) ==
    LET appsDir == IF proj.nx.state = "obj" THEN NxDir(proj.nx.appsDir, <<"apps">>)
                   ELSE <<"apps">>
        libsDir == IF proj.nx.state = "obj" THEN NxDir(proj.nx.libsDir, <<"libs">>)
                   ELSE <<"libs">>
    IN  (IF DirEntryExists(proj, appsDir) THEN <<appsDir \o <<"/", "*">>>> ELSE <<>>)
        \o (IF DirEntryExists(proj, libsDir) THEN <<libsDir \o <<"/", "*">>>> ELSE <<>>)
        \o (IF DirEntryExists(proj, <<"packages">>)
            THEN << <<"packages", "/", "*">> >> ELSE <<>>)

\* Array.isArray(workspaces) ? workspaces : workspaces.packages || []
WorkspacesList(ws) ==
    CASE ws.kind = "array" -> ws.list
      [] ws.kind = "object" -> ws.list
      [] OTHER -> <<>>

\* lines 59-87: the package.json part
detectFromManifest(proj) ==
    IF proj.pkg.state # "obj" THEN Returned("single", JsonField("list", <<>>))
    ELSE IF proj.pkg.workspaces.kind # "unset"
    THEN IF proj.lerna.state = "obj" /\ proj.lerna.useWorkspaces
         THEN Returned("lerna", JsonField("list", WorkspacesList(proj.pkg.workspaces)))
         ELSE Returned(IF proj.yarnLock THEN "yarn" ELSE "npm",
                       JsonField("list", WorkspacesList(proj.pkg.workspaces)))
    ELSE Returned("single", JsonField("list", <<>>))

\* lines 49-57: the lerna.json part
detectFromLerna(proj) ==
    IF /\ proj.lerna.state = "obj"
       /\ ~proj.lerna.useWorkspaces
       /\ proj.lerna.packages.kind # "unset"
    THEN Returned("lerna", proj.lerna.packages)
    ELSE detectFromManifest(proj)

\* lines 40-47: the nx.json part
detectFromNx(proj) ==
    IF proj.nx.state # "missing"
    THEN IF detectNxPackagesThrows(proj) THEN Raised
         ELSE IF Len(detectNxPackages(proj)) > 0
         THEN Returned("nx", JsonField("list", detectNxPackages(proj)))
         ELSE detectFromLerna(proj)
    ELSE detectFromLerna(proj)

detectWorkspaceManifestFirst(proj) ==
    IF proj.pkg.state = "obj" /\ proj.pkg.workspaces.kind # "unset"
    THEN detectFromManifest(proj)
    ELSE IF proj.pnpm.state # "missing"
    THEN IF proj.pnpm.state = "unreadable" THEN Raised
         ELSE Returned("pnpm", JsonField("list", parsePnpmWorkspace(proj.pnpm.content)))
    ELSE detectFromNx(proj)

detectWorkspace(proj) ==
    IF proj.pnpm.state # "missing"
    THEN IF proj.pnpm.state = "unreadable" THEN Raised
         ELSE Returned("pnpm", JsonField("list", parsePnpmWorkspace(proj.pnpm.content)))
    ELSE detectFromNx(proj)

(***************************************************************************)
(* The projects the detector is run on.                                    *)
(***************************************************************************)
Dir(name) == [name |-> name, kind |-> "dir", children |-> <<>>]

PnpmFiles ==
    { [state |-> "missing", content |-> <<>>],
      [state |-> "unreadable", content |-> <<>>],
      [state |-> "ok", content |-> <<>>],
      [state |-> "ok",
       content |-> RenderDoc(<< KeyLine, ItemLine("single", <<"x">>, TRUE) >>)] }

NoJson == JsonField("unset", <<>>)

NxFiles ==
    { [state |-> "missing", appsDir |-> NoJson, libsDir |-> NoJson],
      [state |-> "null", appsDir |-> NoJson, libsDir |-> NoJson],
      [state |-> "obj", appsDir |-> NoJson, libsDir |-> NoJson],
      [state |-> "obj", appsDir |-> JsonField("name", <<"svc">>), libsDir |-> NoJson],
      [state |-> "obj", appsDir |-> JsonField("badtype", <<>>), libsDir |-> NoJson] }

LernaFiles ==
    { [state |-> "missing", packages |-> NoJson, useWorkspaces |-> FALSE],
      [state |-> "null", packages |-> NoJson, useWorkspaces |-> FALSE] }
    \cup
    { [state |-> "obj", packages |-> pk, useWorkspaces |-> u] :
        pk \in { NoJson, JsonField("list", <<>>),
                 JsonField("list", << <<"lp", "/", "*">> >>),
                 JsonField("badtype", <<>>) },
        u \in BOOLEAN }

ManifestFiles ==
    { [state |-> "missing", workspaces |-> NoJson],
      [state |-> "null", workspaces |-> NoJson] }
    \cup
    { [state |-> "obj", workspaces |-> w] :
        w \in { NoJson, JsonField("array", <<>>),
                JsonField("array", << <<"packages", "/", "*">> >>),
                JsonField("object", <<>>),
                JsonField("object", << <<"np", "/", "*">> >>),
                JsonField("badtype", <<>>) } }

TopDirNames == << <<"apps">>, <<"libs">>, <<"packages">>, <<"svc">> >>

RECURSIVE DirsOf(_, _)
DirsOf(names, chosen) ==
    IF names = <<>> THEN <<>>
    ELSE (IF Head(names) \in chosen THEN <<Dir(Head(names))>> ELSE <<>>)
         \o DirsOf(Tail(names), chosen)

Trees ==
    { DirsOf(TopDirNames, chosen) :
        chosen \in SUBSET { TopDirNames[i] : i \in 1..Len(TopDirNames) } }

Projects ==
    { [pnpm |-> pn, nx |-> nx, lerna |-> le, pkg |-> pk, yarnLock |-> y, tree |-> t] :
        pn \in PnpmFiles, nx \in NxFiles, le \in LernaFiles, pk \in ManifestFiles,
        y \in BOOLEAN, t \in Trees }

NoProject ==
    [pnpm |-> [state |-> "missing", content |-> <<>>],
     nx |-> [state |-> "missing", appsDir |-> NoJson, libsDir |-> NoJson],
     lerna |-> [state |-> "missing", packages |-> NoJson, useWorkspaces |-> FALSE],
     pkg |-> [state |-> "missing", workspaces |-> NoJson],
     yarnLock |-> FALSE, tree |-> <<>>]

NoResult == [status |-> "none", type |-> "none", packages |-> JsonField("list", <<>>)]

DetIdle ==
    /\ project = NoProject
    /\ detPc = "idle"
    /\ detResult = NoResult

DetInit ==
    /\ project \in Projects
    /\ detPc = "call"
    /\ detResult = NoResult

DetectWorkspace ==
    /\ detPc = "call"
    /\ detResult' = detectWorkspace(project)
    /\ detPc' = IF detectWorkspace(project).status = "raised" THEN "raised" ELSE "returned"
    /\ UNCHANGED project
    /\ UNCHANGED <<walkVars, pnpmVars, outVars, linkVars, genVars, restVars>>

DetNext == DetectWorkspace

(***************************************************************************)
(* Claims about the detector (checked under SpecDetect).                   *)
(***************************************************************************)
FilePresent(f) == f.state # "missing"

\* every field of the marker files has the type its schema gives it
WellTyped(proj) ==
    /\ proj.nx.appsDir.kind # "badtype"
    /\ proj.nx.libsDir.kind # "badtype"
    /\ proj.lerna.packages.kind # "badtype"
    /\ proj.pkg.workspaces.kind # "badtype"

ConfiguredDir(proj, field, default) ==
    IF proj.nx.state = "obj" /\ field.kind = "name" THEN field.list ELSE default

NxCheckMatches(proj) ==
    /\ FilePresent(proj.nx)
    /\ \/ ConfiguredDir(proj, proj.nx.appsDir, <<"apps">>) \in TreeNames(proj)
       \/ ConfiguredDir(proj, proj.nx.libsDir, <<"libs">>) \in TreeNames(proj)
       \/ <<"packages">> \in TreeNames(proj)

LernaCheckMatches(proj) ==
    /\ proj.lerna.state = "obj"
    /\ proj.lerna.packages.kind = "list"
    /\ ~proj.lerna.useWorkspaces

ManifestCheckMatches(proj) ==
    /\ proj.pkg.state = "obj"
    /\ proj.pkg.workspaces.kind \in {"array", "object"}

\* C8: a returned WorkspaceInfo is the one of the first check that matches,
\* in the order pnpm, nx, lerna (own packages list), package.json workspaces
\* (lerna with useWorkspaces, else yarn with yarn.lock, else npm), single.
C8_FirstMatchingCheckWins ==
    (detPc = "returned" /\ WellTyped(project)) =>
        IF FilePresent(project.pnpm)
        THEN /\ detResult.type = "pnpm"
             /\ detResult.packages.list = parsePnpmWorkspace(project.pnpm.content)
        ELSE IF NxCheckMatches(project)
        THEN /\ detResult.type = "nx"
             /\ Len(detResult.packages.list) > 0
        ELSE IF LernaCheckMatches(project)
        THEN /\ detResult.type = "lerna"
             /\ detResult.packages.list = project.lerna.packages.list
        ELSE IF ManifestCheckMatches(project)
        THEN /\ detResult.type =
                  IF project.lerna.state = "obj" /\ project.lerna.useWorkspaces
                  THEN "lerna"
                  ELSE IF project.yarnLock THEN "yarn" ELSE "npm"
             /\ detResult.packages.list = project.pkg.workspaces.list
        ELSE /\ detResult.type = "single"
             /\ detResult.packages.list = <<>>

\* C8 witness: every check matches at once and the first one, pnpm, wins.
C8_Witness ==
    /\ detPc = "returned"
    /\ WellTyped(project)
    /\ project.pnpm.state = "ok" /\ project.pnpm.content # <<>>
    /\ NxCheckMatches(project)
    /\ LernaCheckMatches(project)
    /\ ManifestCheckMatches(project) /\ project.pkg.workspaces.list # <<>>
    /\ detResult.type = "pnpm"
    /\ detResult.packages.list = << <<"x">> >>

\* C9: detectWorkspace returns a WorkspaceInfo and never raises, whatever
\* the marker files are (missing, unreadable, malformed, wrongly typed).
C9_DetectNeverRaises ==
    /\ detPc # "raised"
    /\ detPc = "returned" => detResult.status = "returned"

(***************************************************************************)
(* createSkillFile (linker.ts).  Paths are relative to the output          *)
(* directory: a target path is [dir, file], dir the package folder (the    *)
(* empty name for the output directory itself).                            *)
(***************************************************************************)
Truthy(text) == text = "text"

createSkillFolderName(name) == name

RECURSIVE ReplaceSlashes(_)
ReplaceSlashes(s) ==
    IF s = <<>> THEN <<>>
    ELSE (IF Head(s) = "/" THEN <<"_", "_">> ELSE <<Head(s)>>) \o ReplaceSlashes(Tail(s))

\* name.replace(/^@/, '').replace(/\//g, '__') + '@' + version + '.md'
createSkillFileName(name, version) ==
    ReplaceSlashes(IF StartsWith(name, <<"@">>) THEN Tail(name) ELSE name)
        \o <<"@", version, ".md">>

hasAnyContentWithLicense(pkg) ==
    \/ Truthy(pkg.docs.readme)
    \/ Truthy(pkg.docs.changelog)
    \/ Truthy(pkg.docs.license)
    \/ pkg.docs.docsPath
    \/ pkg.docs.typesPath
    \/ pkg.docs.additionalDocs > 0
    \/ Truthy(pkg.description)
    \/ Truthy(pkg.homepage)
    \/ Truthy(pkg.readme)

hasAnyContentReadmePath(pkg) ==
    \/ pkg.docs.readmePath
    \/ Truthy(pkg.docs.changelog)
    \/ pkg.docs.docsPath
    \/ pkg.docs.typesPath
    \/ pkg.docs.additionalDocs > 0
    \/ Truthy(pkg.description)
    \/ Truthy(pkg.homepage)
    \/ Truthy(pkg.readme)

hasAnyContent(pkg) ==
    \/ Truthy(pkg.docs.readme)
    \/ Truthy(pkg.docs.changelog)
    \/ pkg.docs.docsPath
    \/ pkg.docs.typesPath
    \/ pkg.docs.additionalDocs > 0
    \/ Truthy(pkg.description)
    \/ Truthy(pkg.homepage)
    \/ Truthy(pkg.readme)

\* generateSkillContent: the sections the document is made of
generateSkillContent(pkg) ==
    LET readme == IF pkg.docs.readme # "none" THEN pkg.docs.readme ELSE pkg.readme
    IN  [ marker |-> <<pkg.name, pkg.version>>,
          description |-> Truthy(pkg.description),
          homepage |-> Truthy(pkg.homepage),
          body |-> IF Truthy(readme) THEN "Documentation"
                   ELSE IF Truthy(pkg.description) THEN "About" ELSE "none",
          resources |-> \/ pkg.docs.docsPath
                        \/ pkg.docs.additionalDocs > 0
                        \/ Truthy(pkg.homepage)
                        \/ pkg.docs.typesPath,
          changes |-> Truthy(pkg.docs.changelog),
          footer |-> today ]

\* the prefixes of a folder name that are directories: '@s/a' gives '@s', '@s/a'
FolderDirs(folder) ==
    { SubSeq(folder, 1, i) :
        i \in { k \in 1..Len(folder) : k = Len(folder) \/ folder[k + 1] = "/" } }

TargetPath(pkg, useFolderStructure) ==
    IF useFolderStructure
    THEN [dir |-> createSkillFolderName(pkg.name), file |-> <<"SKILL.md">>]
    ELSE [dir |-> <<>>, file |-> createSkillFileName(pkg.name, pkg.version)]

NullSkill ==
    [kind |-> "null", name |-> <<>>, version |-> "",
     targetPath |-> [dir |-> <<>>, file |-> <<>>]]

\* createSkillFile: what it returns and the output directory it leaves
createSkillFileRemoveOnly(pkg, useFolderStructure, files, dirs) ==
    IF ~hasAnyContent(pkg)
    THEN [result |-> NullSkill, files |-> files, dirs |-> dirs]
    ELSE LET targetPath == TargetPath(pkg, useFolderStructure)
             content == generateSkillContent(pkg)
         IN  [ result |-> [kind |-> "file", name |-> pkg.name, version |-> pkg.version,
                           targetPath |-> targetPath, content |-> content],
               files |-> IF targetPath \in DOMAIN files
                         THEN [ t \in (DOMAIN files) \ {targetPath} |-> files[t] ]
                         ELSE [ t \in (DOMAIN files) \cup {targetPath} |->
                                  IF t = targetPath THEN content ELSE files[t] ],
               dirs |-> dirs \cup {<<>>} \cup FolderDirs(targetPath.dir) ]

createSkillFileKeepExisting(pkg, useFolderStructure, files, dirs) ==
    IF ~hasAnyContent(pkg)
    THEN [result |-> NullSkill, files |-> files, dirs |-> dirs]
    ELSE LET targetPath == TargetPath(pkg, useFolderStructure)
             content == generateSkillContent(pkg)
         IN  [ result |-> [kind |-> "file", name |-> pkg.name, version |-> pkg.version,
                           targetPath |-> targetPath, content |-> content],
               files |-> [ t \in (DOMAIN files) \cup {targetPath} |->
                             IF t \in DOMAIN files THEN files[t] ELSE content ],
               dirs |-> dirs \cup {<<>>} \cup FolderDirs(targetPath.dir) ]

createSkillFile(pkg, useFolderStructure, files, dirs) ==
    IF ~hasAnyContent(pkg)
    THEN [result |-> NullSkill, files |-> files, dirs |-> dirs]
    ELSE LET targetPath == TargetPath(pkg, useFolderStructure)
             content == generateSkillContent(pkg)
         IN  [ result |-> [kind |-> "file", name |-> pkg.name, version |-> pkg.version,
                           targetPath |-> targetPath, content |-> content],
               files |-> [ t \in (DOMAIN files) \cup {targetPath} |->
                             IF t = targetPath THEN content ELSE files[t] ],
               dirs |-> dirs \cup {<<>>} \cup FolderDirs(targetPath.dir) ]

(***************************************************************************)
(* The records createSkillFile is called with, and the output directory    *)
(* it finds.                                                               *)
(***************************************************************************)
Texts == {"none", "empty", "text"}

Bundles ==
    { [ readmePath |-> rp, readme |-> r, changelogPath |-> c = "text", changelog |-> c,
        licensePath |-> l = "text", license |-> l,
        docsPath |-> d, typesPath |-> t, additionalDocs |-> x ] :
        rp \in BOOLEAN, r \in Texts, c \in {"none", "text"}, l \in {"none", "text"},
        d \in BOOLEAN, t \in BOOLEAN, x \in {0, 1} }

LinkerRecords ==
    { [ name |-> n, version |-> "1", description |-> de, homepage |-> h,
        packagePath |-> <<NodeModules, n>>, docs |-> b, readme |-> lr,
        readmePath |-> b.readmePath ] :
        n \in { <<"a">>, <<"@", "s", "/", "a">> },
        de \in Texts, h \in {"none", "text"}, b \in { x \in Bundles : x.readme = "none" \/ x.readmePath },
        lr \in {"none", "text"} }

StaleContent ==
    [ marker |-> <<<<"a">>, "0">>, description |-> FALSE, homepage |-> FALSE,
      body |-> "none", resources |-> FALSE, changes |-> FALSE, footer |-> 0 ]

EmptyOut == [ t \in {} |-> StaleContent ]

StaleOut == [ t \in { [dir |-> <<"a">>, file |-> <<"SKILL.md">>] } |-> StaleContent ]

OutIdle ==
    /\ outFiles = EmptyOut
    /\ outDirs = {}

OutInit ==
    \/ outFiles = EmptyOut /\ outDirs = {}
    \/ outFiles = StaleOut /\ outDirs = {<<>>, <<"a">>}

NoRecord ==
    [ name |-> <<>>, version |-> "", description |-> "none", homepage |-> "none",
      packagePath |-> <<NodeModules, <<>>>>,
      docs |-> gatherDocumentation(NoContent), readme |-> "none", readmePath |-> FALSE ]

LinkIdle ==
    /\ linkPkg = NoRecord
    /\ linkFolder = TRUE
    /\ linkPc = "idle"
    /\ linkResult = NullSkill
    /\ linkHistory = <<>>

LinkInit ==
    /\ linkPkg \in LinkerRecords
    /\ linkFolder \in BOOLEAN
    /\ linkPc = "call"
    /\ linkResult = NullSkill
    /\ linkHistory = <<>>

CreateSkillFile ==
    /\ linkPc = "call"
    /\ LET r == createSkillFile(linkPkg, linkFolder, outFiles, outDirs)
       IN  /\ linkResult' = r.result
           /\ outFiles' = r.files
           /\ outDirs' = r.dirs
           /\ linkHistory' = Append(linkHistory, r.result)
    /\ linkPc' = "returned"
    /\ UNCHANGED <<linkPkg, linkFolder>>
    /\ UNCHANGED <<walkVars, pnpmVars, detVars, genVars, restVars>>

LinkNext == CreateSkillFile

(***************************************************************************)
(* Claims about createSkillFile.                                           *)
(***************************************************************************)
Empty(text) == text \in {"none", "empty"}

\* readme, changelog, docs folder, type definitions, extra docs, description
\* and homepage are all empty (the legacy readme field included)
GateEmpty(pkg) ==
    /\ Empty(pkg.docs.readme) /\ Empty(pkg.readme)
    /\ Empty(pkg.docs.changelog)
    /\ ~pkg.docs.docsPath
    /\ ~pkg.docs.typesPath
    /\ pkg.docs.additionalDocs = 0
    /\ Empty(pkg.description)
    /\ Empty(pkg.homepage)

Rendered(pkg, useFolderStructure, result, files) ==
    /\ result.kind = "file"
    /\ result.name = pkg.name
    /\ result.targetPath \in DOMAIN files
    /\ files[result.targetPath] = result.content
    /\ result.content.marker = <<pkg.name, pkg.version>>

\* C5 (as the code has it): createSkillFile suppresses output exactly for a
\* record whose readme, changelog, docs folder, type definitions, extra docs,
\* description and homepage are all empty; the license is not looked at, so a
\* record with only a LICENSE file is suppressed, and a record in which any of
\* the other fields is present is rendered.
C5_GateIgnoresLicense ==
    linkPc = "returned" =>
        /\ (linkResult.kind = "null") <=> GateEmpty(linkPkg)
        /\ ~GateEmpty(linkPkg) => Rendered(linkPkg, linkFolder, linkResult, outFiles)

\* a record with only a LICENSE file went through createSkillFile and nothing
\* was rendered
C5_Witness ==
    /\ linkPc = "returned"
    /\ Truthy(linkPkg.docs.license)
    /\ GateEmpty(linkPkg)
    /\ linkResult.kind = "null"

\* C5 (as stated): output is suppressed only when the license is empty too; a
\* record in which any field, the license included, is present is rendered.
C5_AsStated ==
    linkPc = "returned" =>
        /\ linkResult.kind = "null" => (GateEmpty(linkPkg) /\ Empty(linkPkg.docs.license))
        /\ (~GateEmpty(linkPkg) \/ Truthy(linkPkg.docs.license))
               => Rendered(linkPkg, linkFolder, linkResult, outFiles)

(***************************************************************************)
(* The project tree as generate sees it.  The project directory is the     *)
(* empty path; a path is the '/'-joined sequence of its segments.  A       *)
(* directory entry is [name, kind, children, nm], nm the node_modules      *)
(* directory inside it (a dependency root, state "missing" when there is   *)
(* none).                                                                  *)
(***************************************************************************)
\* path.join(a, b)
Join(a, b) == IF a = <<>> THEN b ELSE IF b = <<>> THEN a ELSE a \o <<"/">> \o b

FirstSlash(s) == CHOOSE i \in 1..Len(s) : s[i] = "/" /\ \A j \in 1..(i - 1) : s[j] # "/"

\* pattern.split('/')
RECURSIVE Split(_)
Split(s) ==
    IF ~Includes(s, "/") THEN <<s>>
    ELSE <<SubSeq(s, 1, FirstSlash(s) - 1)>> \o Split(SubSeq(s, FirstSlash(s) + 1, Len(s)))

NoRoot == [state |-> "missing", entries |-> <<>>]

NoNode == [name |-> <<>>, kind |-> "none", children |-> <<>>, nm |-> NoRoot]

RootNode(proj) == [name |-> <<>>, kind |-> "dir", children |-> proj.tree, nm |-> proj.nm]

\* the entries readdir lists in a directory of the project
Listing(node) ==
    node.children
    \o (IF node.nm.state # "missing"
        THEN <<[name |-> NodeModules, kind |-> "dir", children |-> <<>>, nm |-> NoRoot]>>
        ELSE <<>>)

RECURSIVE Lookup(_, _)
Lookup(node, segments) ==
    IF segments = <<>> THEN node
    ELSE IF Head(segments) = <<>> THEN Lookup(node, Tail(segments))
    ELSE IF node.kind \notin {"dir", "linkdir"} THEN NoNode
    ELSE LET found == { i \in 1..Len(Listing(node)) : Listing(node)[i].name = Head(segments) }
         IN  IF found = {} THEN NoNode
             ELSE Lookup(Listing(node)[CHOOSE i \in found : TRUE], Tail(segments))

NodeAt(proj, path) == Lookup(RootNode(proj), Split(path))

fileExists(proj, path) == NodeAt(proj, path).kind # "none"

\* the dependency root at a path that ends in node_modules
RootAt(proj, path) ==
    LET segments == Split(path)
    IN  Lookup(RootNode(proj), SubSeq(segments, 1, Len(segments) - 1)).nm

matchWildcard(str, pattern) == RegexTest(pattern, str)

RECURSIVE JoinAll(_)
JoinAll(parts) ==
    IF parts = <<>> THEN <<>> ELSE Join(Head(parts), JoinAll(Tail(parts)))

RECURSIVE expandGlobs(_, _, _)
RECURSIVE ExpandEntries(_, _, _, _, _, _)
ExpandEntries(proj, entries, i, basePath, wildcardPart, remaining) ==
    IF i > Len(entries) THEN <<>>
    ELSE LET entry == entries[i]
             rest == ExpandEntries(proj, entries, i + 1, basePath, wildcardPart, remaining)
             fullPath == Join(basePath, entry.name)
         IN  IF entry.kind # "dir" THEN rest
             ELSE IF wildcardPart = <<"*">> \/ matchWildcard(entry.name, wildcardPart)
             THEN (IF remaining # <<>> THEN expandGlobs(proj, remaining, fullPath)
                   ELSE <<fullPath>>) \o rest
             ELSE rest

expandGlobsUnchecked(proj, pattern, root) ==
    IF ~Includes(pattern, "*")
    THEN <<Join(root, pattern)>>
    ELSE LET parts == Split(pattern)
             firstWildcard == CHOOSE i \in 1..Len(parts) :
                                 /\ Includes(parts[i], "*")
                                 /\ \A j \in 1..(i - 1) : ~Includes(parts[j], "*")
             basePath == Join(root, JoinAll(SubSeq(parts, 1, firstWildcard - 1)))
             wildcardPart == parts[firstWildcard]
             remaining == JoinAll(SubSeq(parts, firstWildcard + 1, Len(parts)))
             base == NodeAt(proj, basePath)
         IN  IF base.kind \notin {"dir", "linkdir"} THEN <<>>
             ELSE ExpandEntries(proj, Listing(base), 1, basePath, wildcardPart, remaining)

expandGlobs(proj, pattern, root) ==
    IF ~Includes(pattern, "*")
    THEN IF fileExists(proj, Join(root, pattern)) THEN <<Join(root, pattern)>> ELSE <<>>
    ELSE LET parts == Split(pattern)
             firstWildcard == CHOOSE i \in 1..Len(parts) :
                                 /\ Includes(parts[i], "*")
                                 /\ \A j \in 1..(i - 1) : ~Includes(parts[j], "*")
             basePath == Join(root, JoinAll(SubSeq(parts, 1, firstWildcard - 1)))
             wildcardPart == parts[firstWildcard]
             remaining == JoinAll(SubSeq(parts, firstWildcard + 1, Len(parts)))
             base == NodeAt(proj, basePath)
         IN  IF base.kind \notin {"dir", "linkdir"} THEN <<>>     \* readdir throws
             ELSE ExpandEntries(proj, Listing(base), 1, basePath, wildcardPart, remaining)

RECURSIVE ExistingRootsUnchecked(_, _)
ExistingRootsUnchecked(proj, dirs) ==
    IF dirs = <<>> THEN <<>>
    ELSE <<Join(Head(dirs), NodeModules)>> \o ExistingRootsUnchecked(proj, Tail(dirs))

\* for (const dir of expanded): the node_modules of dir, if it exists
RECURSIVE ExistingRoots(_, _)
ExistingRoots(proj, dirs) ==
    IF dirs = <<>> THEN <<>>
    ELSE (IF fileExists(proj, Join(Head(dirs), NodeModules))
          THEN <<Join(Head(dirs), NodeModules)>> ELSE <<>>)
         \o ExistingRoots(proj, Tail(dirs))

RECURSIVE MemberRoots(_, _)
MemberRoots(proj, patterns) ==
    IF patterns = <<>> THEN <<>>
    ELSE ExistingRoots(proj, expandGlobs(proj, Head(patterns), <<>>))
         \o MemberRoots(proj, Tail(patterns))

getNodeModulesPathsRootLast(workspace, proj) ==
    (IF workspace.type # "single" /\ Len(workspace.packages.list) > 0
     THEN MemberRoots(proj, workspace.packages.list) ELSE <<>>)
    \o <<Join(<<>>, NodeModules)>>

getNodeModulesPaths(workspace, proj) ==
    <<Join(<<>>, NodeModules)>>
    \o (IF workspace.type # "single" /\ Len(workspace.packages.list) > 0
        THEN MemberRoots(proj, workspace.packages.list) ELSE <<>>)

getDirectDependenciesDepsOnly(proj) ==
    IF proj.pkg.state # "obj" THEN {}
    ELSE proj.pkg.dependencies

getDirectDependencies(proj) ==
    IF proj.pkg.state # "obj" THEN {}
    ELSE proj.pkg.dependencies \cup proj.pkg.devDependencies

\* traverseNodeModules as a whole: everything one call yields
RECURSIVE TraverseFrom(_, _, _, _)
TraverseFrom(entries, i, opts, nodeModulesPath) ==
    IF i > Len(entries) THEN <<>>
    ELSE LET r == TraverseEntry(entries[i], opts, nodeModulesPath)
         IN  IF r.threw THEN r.out
             ELSE r.out \o TraverseFrom(entries, i + 1, opts, nodeModulesPath)

traverseNodeModules(root, opts, nodeModulesPath) ==
    IF root.state # "ok" THEN <<>>
    ELSE TraverseFrom(root.entries, 1, opts, nodeModulesPath)

(***************************************************************************)
(* generate (the orchestrator): detect the workspace, list the dependency  *)
(* roots, walk each root, keep the first record of every name, render the  *)
(* retained records and the index.                                         *)
(* generator.ts is not among the sources; the steps follow section 4.6 of  *)
(* the specification and the generator tests, the functions they call are  *)
(* the ones modelled above.                                                *)
(***************************************************************************)
RecordNames(records) == { records[i].name : i \in 1..Len(records) }

\* append the records of one root: directOnly intersects with the direct
\* dependencies, a name already retained is dropped
RECURSIVE Retain(_, _, _, _)
Retain(records, found, directOnly, direct) ==
    IF found = <<>> THEN records
    ELSE LET r == Head(found)
             keep == /\ (directOnly => r.name \in direct)
                     /\ r.name \notin RecordNames(records)
         IN  Retain(IF keep THEN Append(records, r) ELSE records,
                    Tail(found), directOnly, direct)

IndexPath == [dir |-> <<>>, file |-> <<"_index.md">>]

\* the index document: one row per rendered package, workspace type, count
IndexContent(rendered, type) ==
    [ rows |-> [ i \in 1..Len(rendered) |-> <<rendered[i].name, rendered[i].version>> ],
      workspace |-> type,
      count |-> Len(rendered) ]

EmptyReadme == Content("empty", "absent", "absent", FALSE, FALSE, 0, "none", "none")

GenPkg(name, kind, version, content) ==
    Entry(name, kind, TRUE, <<>>, PkgDir("ok", version, content))

GenRootChoices ==
    { NoRoot,
      [state |-> "ok",
       entries |-> << GenPkg(<<"a">>, "dir", "1", ReadmeOnly),
                      GenPkg(<<"b">>, "dir", "1", NoContent) >>],
      [state |-> "ok",
       entries |-> << GenPkg(<<"b">>, "dir", "1", LicenseOnly),
                      Entry(<<"@", "s">>, "dir", TRUE,
                            << Child(<<"a">>, "dir", PkgDir("ok", "1", DescOnly)) >>,
                            PkgDir("missing", "1", NoContent)) >>],
      [state |-> "ok",
       entries |-> << GenPkg(<<"a">>, "dir", "1", EmptyReadme),
                      GenPkg(<<"b">>, "linkdir", "1", ReadmeOnly) >>] }

GenMemberRootChoices ==
    { NoRoot,
      [state |-> "ok", entries |-> << GenPkg(<<"a">>, "dir", "2", DescOnly) >>],
      [state |-> "ok",
       entries |-> << GenPkg(<<"b">>, "dir", "2", ReadmeOnly),
                      GenPkg(<<"c">>, "dir", "2", ReadmeOnly) >>] }

Member(name, kind, nm) == [name |-> name, kind |-> kind, children |-> <<>>, nm |-> nm]

GenTrees ==
    { <<>> }
    \cup
    { << [name |-> <<"packages">>, kind |-> "dir", nm |-> NoRoot,
          children |-> << Member(<<"m">>, "dir", nm) >>] >> : nm \in GenMemberRootChoices }
    \cup
    { << [name |-> <<"packages">>, kind |-> "dir", nm |-> NoRoot,
          children |-> << Member(<<"m">>, "dir", nm),
                          Member(<<"n">>, k,
                                 [state |-> "ok",
                                  entries |-> << GenPkg(<<"a">>, "dir", "3", ReadmeOnly) >>]) >>] >> :
        nm \in GenMemberRootChoices, k \in {"dir", "linkdir", "file"} }

GenManifests ==
    { [state |-> "missing", workspaces |-> NoJson, dependencies |-> {}, devDependencies |-> {}] }
    \cup
    { [state |-> "obj", workspaces |-> w, dependencies |-> d, devDependencies |-> dd] :
        w \in { NoJson,
                JsonField("array", << <<"packages", "/", "*">> >>),
                JsonField("array", << <<"packages", "/", "n">>, <<"packages", "/", "*">> >>) },
        d \in { {}, { <<"a">> }, { <<"a">>, <<"@", "s", "/", "a">> } },
        dd \in { {}, { <<"b">> } } }

GenPnpmFiles ==
    { [state |-> "missing", content |-> <<>>],
      [state |-> "unreadable", content |-> <<>>],
      [state |-> "ok",
       content |-> RenderDoc(<< KeyLine,
                                ItemLine("single", <<"packages", "/", "*">>, TRUE) >>)] }

GenProjects ==
    { [pnpm |-> pn,
       nx |-> [state |-> "missing", appsDir |-> NoJson, libsDir |-> NoJson],
       lerna |-> [state |-> "missing", packages |-> NoJson, useWorkspaces |-> FALSE],
       pkg |-> pk, yarnLock |-> FALSE, tree |-> t, nm |-> nm] :
        pn \in GenPnpmFiles, pk \in GenManifests, t \in GenTrees, nm \in GenRootChoices }

GenOptions ==
    { [include |-> Absent, exclude |-> e, directOnly |-> d] :
        e \in { Absent, Given(<< <<"c">> >>) }, d \in BOOLEAN }

NoGenProject ==
    [pnpm |-> [state |-> "missing", content |-> <<>>],
     nx |-> [state |-> "missing", appsDir |-> NoJson, libsDir |-> NoJson],
     lerna |-> [state |-> "missing", packages |-> NoJson, useWorkspaces |-> FALSE],
     pkg |-> [state |-> "missing", workspaces |-> NoJson,
              dependencies |-> {}, devDependencies |-> {}],
     yarnLock |-> FALSE, tree |-> <<>>, nm |-> NoRoot]

GenIdle ==
    /\ genProject = NoGenProject
    /\ genOpts = [include |-> Absent, exclude |-> Absent, directOnly |-> FALSE]
    /\ genPc = "idle"
    /\ genWorkspace = NoResult
    /\ genPaths = <<>>
    /\ genPathPos = 1
    /\ genDirect = {}
    /\ genRecords = <<>>
    /\ genPos = 1
    /\ skills = <<>>
    /\ packagesScanned = 0

GenInit ==
    /\ genProject \in GenProjects
    /\ genOpts \in GenOptions
    /\ genPc = "start"
    /\ genWorkspace = NoResult
    /\ genPaths = <<>>
    /\ genPathPos = 1
    /\ genDirect = {}
    /\ genRecords = <<>>
    /\ genPos = 1
    /\ skills = <<>>
    /\ packagesScanned = 0

OtherVars == <<walkVars, pnpmVars, detVars, linkVars>>

\* detect the workspace, list the dependency roots, read the direct dependencies
GenDetect ==
    /\ genPc = "start"
    /\ LET workspace == detectWorkspace(genProject)
       IN  /\ genWorkspace' = workspace
           /\ IF workspace.status = "raised"
              THEN /\ genPc' = "failed"
                   /\ UNCHANGED <<genPaths, genDirect>>
              ELSE /\ genPc' = "walk"
                   /\ genPaths' = getNodeModulesPaths(workspace, genProject)
                   /\ genDirect' = getDirectDependencies(genProject)
    /\ UNCHANGED <<genProject, genOpts, genPathPos, genRecords, genPos, skills, packagesScanned>>
    /\ UNCHANGED <<outVars, OtherVars, restVars>>

\* walk one dependency root and retain its new records
GenWalk ==
    /\ genPc = "walk"
    /\ genPathPos <= Len(genPaths)
    /\ LET nodeModulesPath == genPaths[genPathPos]
           found == traverseNodeModules(RootAt(genProject, nodeModulesPath), genOpts,
                                        nodeModulesPath)
           retained == Retain(genRecords, found, genOpts.directOnly, genDirect)
       IN  /\ genRecords' = retained
           /\ packagesScanned' = Len(retained)
    /\ genPathPos' = genPathPos + 1
    /\ genPc' = IF genPathPos = Len(genPaths) THEN "render" ELSE "walk"
    /\ UNCHANGED <<genProject, genOpts, genWorkspace, genPaths, genDirect, genPos, skills>>
    /\ UNCHANGED <<outVars, OtherVars, restVars>>

\* render one retained record
GenRender ==
    /\ genPc = "render"
    /\ genPos <= Len(genRecords)
    /\ LET r == createSkillFile(genRecords[genPos], TRUE, outFiles, outDirs)
       IN  /\ outFiles' = r.files
           /\ outDirs' = r.dirs
           /\ skills' = IF r.result.kind = "null" THEN skills ELSE Append(skills, r.result)
    /\ genPos' = genPos + 1
    /\ UNCHANGED <<genProject, genOpts, genPc, genWorkspace, genPaths, genPathPos,
                   genDirect, genRecords, packagesScanned>>
    /\ UNCHANGED <<OtherVars, restVars>>

\* render the index document and return the result
GenIndex ==
    /\ genPc = "render"
    /\ genPos > Len(genRecords)
    /\ outFiles' = [ t \in (DOMAIN outFiles) \cup {IndexPath} |->
                       IF t = IndexPath THEN IndexContent(skills, genWorkspace.type)
                       ELSE outFiles[t] ]
    /\ outDirs' = outDirs \cup {<<>>}
    /\ genPc' = "done"
    /\ UNCHANGED <<genProject, genOpts, genWorkspace, genPaths, genPathPos, genDirect,
                   genRecords, genPos, skills, packagesScanned>>
    /\ UNCHANGED <<OtherVars, restVars>>

cleanFilesOnly(files, dirs) == [files |-> EmptyOut, dirs |-> dirs]

\* clean: remove the output directory with everything in it
clean(files, dirs) == [files |-> EmptyOut, dirs |-> {}]

\* clean is called before a run, after a finished run, or after a clean
Clean ==
    /\ genPc \in {"start", "done", "cleaned"}
    /\ outFiles' = clean(outFiles, outDirs).files
    /\ outDirs' = clean(outFiles, outDirs).dirs
    /\ genPc' = "cleaned"
    /\ UNCHANGED <<genProject, genOpts, genWorkspace, genPaths, genPathPos, genDirect,
                   genRecords, genPos, skills, packagesScanned>>
    /\ UNCHANGED <<OtherVars, restVars>>

GenNext == GenDetect \/ GenWalk \/ GenRender \/ GenIndex \/ Clean

(***************************************************************************)
(* Claims about generate (checked under SpecGen).                          *)
(***************************************************************************)
SkillNames == { skills[i].name : i \in 1..Len(skills) }

GatedRecords == { i \in 1..Len(genRecords) : GateEmpty(genRecords[i]) }

\* C4: a record with no readme, changelog, docs folder, type definitions,
\* extra docs, description or homepage produces no document: rendering it
\* returns null and changes neither the files nor the directories of the
\* output, it is absent from skills, and it is counted in packagesScanned.
C4_ContentGate ==
    /\ [][ (genPc = "render" /\ genPos <= Len(genRecords)
              /\ GateEmpty(genRecords[genPos]))
           => (/\ createSkillFile(genRecords[genPos], TRUE, outFiles, outDirs).result.kind
                     = "null"
               /\ outFiles' = outFiles
               /\ outDirs' = outDirs
               /\ skills' = skills) ]_vars
    /\ [] ( genPc = "done" =>
              /\ \A i \in GatedRecords : genRecords[i].name \notin SkillNames
              /\ packagesScanned = Len(skills) + Cardinality(GatedRecords)
              /\ packagesScanned = Len(genRecords) )

\* a run has finished in which a record without content was discovered next
\* to one that was rendered
C4_Witness ==
    /\ genPc = "done"
    /\ GatedRecords # {}
    /\ Len(skills) >= 1
    /\ packagesScanned > Len(skills)

\* the names one dependency root yields under the run's include and exclude
FoundIn(path) ==
    RecordNames(traverseNodeModules(RootAt(genProject, path), genOpts, path))

Discovered == UNION { FoundIn(genPaths[k]) : k \in 1..Len(genPaths) }

\* keys of dependencies and devDependencies of the root package.json
DirectKeys ==
    IF genProject.pkg.state = "obj"
    THEN genProject.pkg.dependencies \cup genProject.pkg.devDependencies
    ELSE {}

\* C6: with directOnly every rendered skill is named by a key of dependencies
\* or devDependencies of the root package.json, every discovered package that
\* is such a key and whose retained record has content is rendered, and no
\* other discovered package gets a document.
C6_DirectOnly ==
    (genPc = "done" /\ genOpts.directOnly) =>
        /\ SkillNames \subseteq DirectKeys
        /\ \A i \in 1..Len(genRecords) : genRecords[i].name \in DirectKeys
        /\ \A n \in Discovered \cap DirectKeys :
              \E i \in 1..Len(genRecords) :
                 /\ genRecords[i].name = n
                 /\ ~GateEmpty(genRecords[i]) => n \in SkillNames
        /\ \A n \in Discovered \ DirectKeys :
              /\ n \notin SkillNames
              /\ \A t \in (DOMAIN outFiles) \ (DOMAIN StaleOut) : t.dir # n

\* a directOnly run has finished that rendered a direct dependency and left
\* out a discovered package with content that is no direct dependency
C6_Witness ==
    /\ genPc = "done"
    /\ genOpts.directOnly
    /\ SkillNames # {}
    /\ \E k \in 1..Len(genPaths) :
          LET found == traverseNodeModules(RootAt(genProject, genPaths[k]), genOpts,
                                           genPaths[k])
          IN  \E i \in 1..Len(found) :
                 /\ found[i].name \notin DirectKeys
                 /\ ~GateEmpty(found[i])
                 /\ found[i].name \notin SkillNames

\* the names of a root that qualify: directOnly keeps the direct dependencies
Qualifying(path) ==
    { n \in FoundIn(path) : genOpts.directOnly => n \in DirectKeys }

FirstRootWith(name) ==
    CHOOSE k \in 1..Len(genPaths) :
        /\ name \in Qualifying(genPaths[k])
        /\ \A j \in 1..(k - 1) : name \notin Qualifying(genPaths[j])

\* C7: once the roots are walked, every qualifying name has exactly one
\* retained record, the one from the first root in processing order that
\* holds it; the node_modules of the workspace root is the first root; the
\* names in skills are pairwise distinct.
C7_FirstRootWins ==
    genPc \in {"render", "done"} =>
        /\ genPaths[1] = NodeModules
        /\ \A n \in UNION { Qualifying(genPaths[k]) : k \in 1..Len(genPaths) } :
              /\ Cardinality({ i \in 1..Len(genRecords) : genRecords[i].name = n }) = 1
              /\ \A i \in 1..Len(genRecords) :
                    genRecords[i].name = n =>
                       genRecords[i].packagePath[1] = genPaths[FirstRootWith(n)]
        /\ \A i, j \in 1..Len(skills) : skills[i].name = skills[j].name => i = j

\* a run has finished in which a package held by the workspace root's
\* node_modules and by a member's node_modules was rendered
C7_Witness ==
    /\ genPc = "done"
    /\ Len(genPaths) >= 2
    /\ \E n \in SkillNames :
          \E k \in 2..Len(genPaths) :
             /\ genPaths[k] # NodeModules
             /\ n \in FoundIn(genPaths[1])
             /\ n \in FoundIn(genPaths[k])

(***************************************************************************)
(* Claims about getNodeModulesPaths (checked under SpecGen).               *)
(***************************************************************************)
\* the directories of the project below cwd: path, the kind of every segment,
\* and whether the directory holds a node_modules
MemberDirs ==
    { [path |-> genProject.tree[i].name, kinds |-> <<genProject.tree[i].kind>>,
       hasRoot |-> genProject.tree[i].nm.state # "missing"] :
        i \in 1..Len(genProject.tree) }
    \cup
    UNION { { [path |-> Join(genProject.tree[i].name, genProject.tree[i].children[j].name),
               kinds |-> <<genProject.tree[i].kind, genProject.tree[i].children[j].kind>>,
               hasRoot |-> genProject.tree[i].children[j].nm.state # "missing"] :
                j \in 1..Len(genProject.tree[i].children) } :
            i \in 1..Len(genProject.tree) }

\* a pattern matches a directory segment by segment: a segment with '*' matches
\* the names of real directories, a literal segment names a directory or a
\* link to one
PatternMatches(pattern, d) ==
    LET ps == Split(pattern)
        qs == Split(d.path)
    IN  /\ Len(ps) = Len(qs)
        /\ \A i \in 1..Len(ps) :
              IF Includes(ps[i], "*")
              THEN RegexTest(ps[i], qs[i]) /\ d.kinds[i] = "dir"
              ELSE ps[i] = qs[i] /\ d.kinds[i] \in {"dir", "linkdir"}

WorkspacePatterns ==
    IF genWorkspace.type = "single" THEN {}
    ELSE { genWorkspace.packages.list[i] : i \in 1..Len(genWorkspace.packages.list) }

ExpectedMemberRoots ==
    { Join(d.path, NodeModules) :
        d \in { x \in MemberDirs : x.hasRoot /\ \E p \in WorkspacePatterns : PatternMatches(p, x) } }

\* C11: getNodeModulesPaths returns the node_modules of the workspace root
\* first, whether or not it exists, then member/node_modules for exactly the
\* matched member directories that hold a node_modules; for type single or no
\* patterns it returns the root path alone.
C11_NodeModulesPaths ==
    genPc \in {"walk", "render", "done"} =>
        /\ Len(genPaths) >= 1
        /\ genPaths[1] = NodeModules
        /\ { genPaths[k] : k \in 2..Len(genPaths) } = ExpectedMemberRoots
        /\ WorkspacePatterns = {} => genPaths = <<NodeModules>>

\* the roots of a workspace are listed: the root has no node_modules, one
\* matched member holds a node_modules and another matched member holds none
C11_Witness ==
    /\ genPc = "walk"
    /\ genProject.nm.state = "missing"
    /\ Len(genPaths) >= 2
    /\ \E d \in MemberDirs :
          /\ ~d.hasRoot
          /\ \E p \in WorkspacePatterns : PatternMatches(p, d)

(***************************************************************************)
(* expandGlobs as a state machine: one call on a pattern, from the         *)
(* workspace root.                                                         *)
(***************************************************************************)
GlobPatterns ==
    { <<"packages", "/", "*">>, <<"packages", "/", "m">>, <<"packages", "/", "n">>,
      <<"packages", "/", "z">>, <<"packages">>, <<"z">>, <<"*">>, <<"*", "/", "m">>,
      <<"pack", "*", "/", "*">>, <<"packages", "/", "*", "/", "m">> }

GlobProjects ==
    { [tree |-> t, nm |-> nm] : t \in GenTrees, nm \in {NoRoot, [state |-> "ok", entries |-> <<>>]} }

GlobIdle ==
    /\ globProject = [tree |-> <<>>, nm |-> NoRoot]
    /\ globPattern = <<>>
    /\ globPc = "idle"
    /\ globResult = <<>>

GlobInit ==
    /\ globProject \in GlobProjects
    /\ globPattern \in GlobPatterns
    /\ globPc = "call"
    /\ globResult = <<>>

ExpandGlobs ==
    /\ globPc = "call"
    /\ globResult' = expandGlobs(globProject, globPattern, <<>>)
    /\ globPc' = "returned"
    /\ UNCHANGED <<globProject, globPattern>>
    /\ UNCHANGED <<coreVars, clVars, regenVars, cfgVars, docVars>>

GlobNext == ExpandGlobs

(***************************************************************************)
(* Claims about expandGlobs (checked under SpecGlob).                      *)
(***************************************************************************)
\* the paths of the tree below the root, whatever they are (directory, file
\* or link)
TreePaths ==
    { globProject.tree[i].name : i \in 1..Len(globProject.tree) }
    \cup
    UNION { { Join(globProject.tree[i].name, globProject.tree[i].children[j].name) :
                j \in 1..Len(globProject.tree[i].children) } :
            i \in 1..Len(globProject.tree) }
    \cup
    (IF globProject.nm.state # "missing" THEN {NodeModules} ELSE {})

\* C12 (as the code has it): for a pattern without '*' expandGlobs returns the
\* one path root/pattern when that path exists, and nothing when it does not.
C12_LiteralPatternIfExists ==
    (globPc = "returned" /\ ~Includes(globPattern, "*")) =>
        globResult = IF globPattern \in TreePaths THEN <<globPattern>> ELSE <<>>

\* a pattern without '*' that names no existing path was expanded to nothing
C12_Witness ==
    /\ globPc = "returned"
    /\ ~Includes(globPattern, "*")
    /\ globPattern \notin TreePaths
    /\ globResult = <<>>

\* C12 (as stated): for a pattern without '*' expandGlobs returns the one
\* candidate path whether or not it exists.
C12_AsStated ==
    (globPc = "returned" /\ ~Includes(globPattern, "*")) =>
        globResult = <<globPattern>>

(***************************************************************************)
(* The changelog, from the file to the rendered section.  A text is the    *)
(* sequence of the pieces content.split('\n') gives: line i of the file is *)
(* the piece i, and the empty piece after a final newline (or the only     *)
(* piece of an empty text) is 0.  Joining the pieces with '\n' gives the   *)
(* text back, so a text is kept as its pieces.                             *)
(***************************************************************************)
ChangelogMaxLines == 200

RenderedChangelogLines == 50

\* content.split('\n') of a file of n lines, with or without a final newline
SplitLines(file) ==
    IF file.lines = 0 THEN <<0>>
    ELSE [ i \in 1..file.lines |-> i ] \o (IF file.finalNewline THEN <<0>> ELSE <<>>)

\* lines.slice(0, count)
Slice(pieces, count) == SubSeq(pieces, 1, IF Len(pieces) < count THEN Len(pieces) ELSE count)

\* a text is falsy when it is the empty string
TextTruthy(pieces) == pieces # <<0>>

NoText == [defined |-> FALSE, pieces |-> <<>>]

\* readTextFile(path, maxLines) ?? undefined
readTextFileLines(file, maxLines) ==
    IF ~file.readable THEN NoText
    ELSE [defined |-> TRUE, pieces |-> Slice(SplitLines(file), maxLines)]

NoSection == [present |-> FALSE, lines |-> <<>>, notice |-> FALSE]

\* generateSkillContent, the changelog section
renderChangelog(changelog) ==
    IF changelog.defined /\ TextTruthy(changelog.pieces)
    THEN [ present |-> TRUE,
           lines |-> Slice(changelog.pieces, RenderedChangelogLines),
           notice |-> Len(changelog.pieces) > RenderedChangelogLines ]
    ELSE NoSection

ChangelogFiles ==
    { [readable |-> r, lines |-> n, finalNewline |-> f] :
        r \in BOOLEAN, n \in 0..MaxFileLines, f \in BOOLEAN }

ClIdle ==
    /\ clFile = [readable |-> FALSE, lines |-> 0, finalNewline |-> FALSE]
    /\ clPc = "idle"
    /\ clBundle = NoText
    /\ clSection = NoSection

ClInit ==
    /\ clFile \in { f \in ChangelogFiles : f.finalNewline => f.lines > 0 }
    /\ clPc = "file"
    /\ clBundle = NoText
    /\ clSection = NoSection

\* gatherDocumentation: docs.changelog = readTextFile(changelogPath, 200)
GatherChangelog ==
    /\ clPc = "file"
    /\ clBundle' = readTextFileLines(clFile, ChangelogMaxLines)
    /\ clPc' = "gathered"
    /\ UNCHANGED <<clFile, clSection>>
    /\ UNCHANGED <<coreVars, globVars, regenVars, cfgVars, docVars>>

\* generateSkillContent renders the bundle
RenderChangelog ==
    /\ clPc = "gathered"
    /\ clSection' = renderChangelog(clBundle)
    /\ clPc' = "rendered"
    /\ UNCHANGED <<clFile, clBundle>>
    /\ UNCHANGED <<coreVars, globVars, regenVars, cfgVars, docVars>>

ClNext == GatherChangelog \/ RenderChangelog

(***************************************************************************)
(* Claims about the changelog (checked under SpecChangelog).               *)
(***************************************************************************)
\* the lines of a text: its pieces without the empty piece at the end
LinesOf(pieces) ==
    IF pieces # <<>> /\ pieces[Len(pieces)] = 0
    THEN SubSeq(pieces, 1, Len(pieces) - 1) ELSE pieces

Min(a, b) == IF a < b THEN a ELSE b

\* C13: the bundle holds exactly the first min(n, 200) lines of a changelog
\* file of n lines; the rendered section holds at most the first 50 lines of
\* the bundle's changelog, and the truncation notice is there exactly when
\* the bundle's changelog has more than 50 lines.
C13_ChangelogTruncation ==
    /\ (clPc \in {"gathered", "rendered"} /\ clFile.readable) =>
          LinesOf(clBundle.pieces) = [ i \in 1..Min(clFile.lines, 200) |-> i ]
    /\ clPc = "rendered" =>
          /\ Len(LinesOf(clSection.lines)) <= 50
          /\ LinesOf(clSection.lines)
                = SubSeq(LinesOf(clBundle.pieces), 1, Len(LinesOf(clSection.lines)))
          /\ clSection.notice <=> Len(LinesOf(clBundle.pieces)) > 50

(***************************************************************************)
(* Repeated calls of createSkillFile for one package name and one output   *)
(* directory: the caller passes a record of the same name each time.       *)
(***************************************************************************)
RecordOf(name, version, content) ==
    extractPackageInfo(PkgDir("ok", version, content), name, NodeModules).info

ReadmeAndChangelog == Content("text", "text", "absent", FALSE, FALSE, 0, "none", "text")

RelinkRecords(name) ==
    { RecordOf(name, v, c) :
        v \in {"1", "2"},
        c \in {NoContent, ReadmeOnly, DescOnly, LicenseOnly, ReadmeAndChangelog} }

RelinkInit ==
    /\ linkPkg \in RelinkRecords(<<"a">>) \cup RelinkRecords(<<"@", "s", "/", "a">>)
    /\ linkFolder \in BOOLEAN
    /\ linkPc = "call"
    /\ linkResult = NullSkill
    /\ linkHistory = <<>>

\* the caller calls createSkillFile again, for the same package name
CallAgain ==
    /\ linkPc = "returned"
    /\ Len(linkHistory) < MaxCalls
    /\ linkPkg' \in RelinkRecords(linkPkg.name)
    /\ linkFolder' \in BOOLEAN
    /\ linkPc' = "call"
    /\ UNCHANGED <<linkResult, linkHistory, outVars>>
    /\ UNCHANGED <<walkVars, pnpmVars, detVars, genVars, restVars>>

RelinkNext == CreateSkillFile \/ CallAgain

(***************************************************************************)
(* Claims about repeated calls (checked under SpecRelink).                 *)
(***************************************************************************)
RenderingCalls == { i \in 1..Len(linkHistory) : linkHistory[i].kind = "file" }

LastRendering == CHOOSE i \in RenderingCalls : \A j \in RenderingCalls : j <= i

\* C14: after any sequence of calls for one package name the file at the
\* target path of the last call that rendered holds exactly the content that
\* call returned.
C14_LastRenderingWins ==
    (linkPc = "returned" /\ RenderingCalls # {}) =>
        LET last == linkHistory[LastRendering]
        IN  /\ last.targetPath \in DOMAIN outFiles
            /\ outFiles[last.targetPath] = last.content

\* two calls rendered different documents at the same target path, and the
\* second of them is the last call that rendered
C14_Witness ==
    /\ linkPc = "returned"
    /\ RenderingCalls # {}
    /\ \E i \in RenderingCalls :
          /\ i < LastRendering
          /\ linkHistory[i].targetPath = linkHistory[LastRendering].targetPath
          /\ linkHistory[i].content # linkHistory[LastRendering].content

(***************************************************************************)
(* createSkillFile called for packages of different names with one output  *)
(* directory and one layout, one call for each package of a run.           *)
(***************************************************************************)
LayoutNames == { <<"a">>, <<"@", "s", "/", "a">>, <<"s", "_", "_", "a">> }

LayoutRecords(names) ==
    { RecordOf(n, v, c) :
        n \in names, v \in {"1", "2"}, c \in {ReadmeOnly, ReadmeAndChangelog} }

LayoutInit ==
    /\ linkPkg \in LayoutRecords(LayoutNames)
    /\ linkFolder \in BOOLEAN
    /\ linkPc = "call"
    /\ linkResult = NullSkill
    /\ linkHistory = <<>>

\* the caller goes on to the next package, one with a name it has not had
NextPackage ==
    /\ linkPc = "returned"
    /\ Len(linkHistory) < MaxCalls
    /\ linkPkg' \in LayoutRecords(LayoutNames
                                    \ { linkHistory[i].name : i \in 1..Len(linkHistory) })
    /\ linkPc' = "call"
    /\ UNCHANGED <<linkFolder, linkResult, linkHistory, outVars>>
    /\ UNCHANGED <<walkVars, pnpmVars, detVars, genVars, restVars>>

LayoutNext == CreateSkillFile \/ NextPackage

(***************************************************************************)
(* Claims about the layout (checked under SpecLayout).                     *)
(***************************************************************************)
DistinctPaths ==
    \A i, j \in 1..Len(linkHistory) :
        linkHistory[i].name # linkHistory[j].name
            => linkHistory[i].targetPath # linkHistory[j].targetPath

DocumentsKept ==
    \A i \in 1..Len(linkHistory) :
        /\ linkHistory[i].targetPath \in DOMAIN outFiles
        /\ outFiles[linkHistory[i].targetPath] = linkHistory[i].content

\* C30: packages of different names are written to different target paths,
\* in the folder layout and in the flat layout, and the document written for
\* one package is still in place after the other packages were rendered.
C30_DistinctNamesDistinctPaths ==
    DistinctPaths /\ DocumentsKept

\* the part of C30 that holds: the folder layout
C30_FolderLayoutDistinct ==
    linkFolder => (DistinctPaths /\ DocumentsKept)

(***************************************************************************)
(* Claims about clean (checked under SpecGen).                             *)
(***************************************************************************)
\* C15: when clean has returned the output directory is gone with everything
\* in it (package documents, scoped folders, the index), whether it was
\* called after generate, on a directory that did not exist, or again after
\* a clean; clean never fails.
C15_CleanRemovesOutput ==
    /\ genPc = "cleaned" => (DOMAIN outFiles = {} /\ outDirs = {})
    /\ genPc \in {"start", "done", "cleaned"} => (ENABLED Clean)

\* clean has returned after a run of generate that had rendered a scoped
\* package and the index
C15_Witness ==
    /\ genPc = "cleaned"
    /\ genPos > Len(genRecords)
    /\ \E i \in 1..Len(skills) : skills[i].name = <<"@", "s", "/", "a">>
    /\ outDirs = {}

(***************************************************************************)
(* generate run again with the same options on the same project, the       *)
(* output of the earlier run still in place; the date may change at any    *)
(* moment.                                                                 *)
(***************************************************************************)
RegenIdle ==
    /\ today = 1
    /\ genRun = 1
    /\ firstOut = EmptyOut

RegenProjects ==
    { p \in GenProjects :
        /\ p.pnpm.state = "missing"
        /\ p.pkg.state = "obj"
        /\ p.pkg.workspaces.kind = "array"
        /\ Len(p.pkg.workspaces.list) = 1 }

RegenInit ==
    /\ GenInit
    /\ genProject \in RegenProjects
    /\ genOpts.exclude = Absent
    /\ RegenIdle

\* generate is called again once the run before it has returned
GenAgain ==
    /\ genPc = "done"
    /\ genRun < MaxRuns
    /\ genRun' = genRun + 1
    /\ firstOut' = IF genRun = 1 THEN outFiles ELSE firstOut
    /\ genPc' = "start"
    /\ genWorkspace' = NoResult
    /\ genPaths' = <<>>
    /\ genPathPos' = 1
    /\ genDirect' = {}
    /\ genRecords' = <<>>
    /\ genPos' = 1
    /\ skills' = <<>>
    /\ packagesScanned' = 0
    /\ UNCHANGED <<genProject, genOpts, today, outVars>>
    /\ UNCHANGED <<OtherVars, globVars, clVars, cfgVars, docVars>>

\* midnight passes
Tick ==
    /\ genPc \in {"start", "walk", "render", "done"}
    /\ today < MaxDays
    /\ today' = today + 1
    /\ UNCHANGED <<genRun, firstOut>>
    /\ UNCHANGED <<coreVars, globVars, clVars, cfgVars, docVars>>

RegenNext == GenDetect \/ GenWalk \/ GenRender \/ GenIndex \/ GenAgain \/ Tick

(***************************************************************************)
(* Claims about repeated runs (checked under SpecRegen).                   *)
(***************************************************************************)
\* two documents are the same but for the generation date of the footer
SameButDate(c, d) ==
    IF "footer" \in DOMAIN c /\ "footer" \in DOMAIN d
    THEN [c EXCEPT !.footer = 0] = [d EXCEPT !.footer = 0]
    ELSE c = d

\* C16: a later run of generate with the same inputs on the unchanged project
\* leaves the same set of output documents as the first run, each with the
\* same content but for the generation date.
C16_GenerateIdempotent ==
    (genPc = "done" /\ genRun >= 2) =>
        /\ DOMAIN outFiles = DOMAIN firstOut
        /\ \A t \in DOMAIN outFiles : SameButDate(outFiles[t], firstOut[t])

\* a second run has finished on a later day than the first: a document was
\* rendered in both and differs in the date alone
C16_Witness ==
    /\ genPc = "done"
    /\ genRun = 2
    /\ Len(skills) >= 1
    /\ \E t \in DOMAIN outFiles :
          /\ t \in DOMAIN firstOut
          /\ outFiles[t] # firstOut[t]
          /\ SameButDate(outFiles[t], firstOut[t])

(***************************************************************************)
(* Configuration (config.ts): loadConfig, validateConfig and mergeConfig.  *)
(* A parsed configuration value keeps the type of its root ("object",      *)
(* "array", "string", "null", or "undefined" for a value that is not       *)
(* there) and, for include, exclude and additionalSources, whether the     *)
(* field is unset, an array or a value of another type.  directOnly is     *)
(* "unset", "true", "false" or "string" (a non-empty string).              *)
(***************************************************************************)

CONFIG_FILES ==
    << "v-skills.config.js", "v-skills.config.mjs", "v-skills.config.cjs",
       "v-skills.config.json", "v-skills.config.yaml", "v-skills.config.yml" >>

ConfigFileNames == { CONFIG_FILES[i] : i \in 1..Len(CONFIG_FILES) }

\* fileName.endsWith(suffix), for the names of CONFIG_FILES
endsWith(fileName, suffix) ==
    <<fileName, suffix>> \in { <<"v-skills.config.json", ".json">>,
                               <<"v-skills.config.yaml", ".yaml">>,
                               <<"v-skills.config.yml", ".yml">> }

NoBool == [defined |-> FALSE, value |-> FALSE]

NoString == [defined |-> FALSE, value |-> ""]

Value(v) == [defined |-> TRUE, value |-> v]

EmptyRaw(root) ==
    [root |-> root, include |-> NoJson, exclude |-> NoJson, directOnly |-> "unset",
     output |-> NoString, additionalSources |-> NoJson]

\* Boolean(cfg.directOnly)
Boolean(v) == v \in {"true", "string"}

\* a VSkillsConfig / GenerateOptions without any field
NoConfig ==
    [include |-> Absent, exclude |-> Absent, directOnly |-> NoBool, output |-> NoString,
     additionalSources |-> Absent]

ConfigReturned(config) ==
    [status |-> "returned", null |-> FALSE, config |-> config, message |-> <<>>]

NullReturned == [status |-> "returned", null |-> TRUE, config |-> NoConfig, message |-> <<>>]

ConfigRaised(message) ==
    [status |-> "raised", null |-> FALSE, config |-> NoConfig, message |-> message]

validateConfig(config) ==
    IF config.root \in {"undefined", "null", "string"}
    THEN ConfigRaised(<<"Config must be an object">>)
    ELSE IF config.include.kind = "other"
    THEN ConfigRaised(<<"Config \"include\" must be an array">>)
    ELSE IF config.exclude.kind = "other"
    THEN ConfigRaised(<<"Config \"exclude\" must be an array">>)
    ELSE ConfigReturned(
           [include |-> IF config.include.kind = "array"
                        THEN Given(config.include.list) ELSE Absent,
            exclude |-> IF config.exclude.kind = "array"
                        THEN Given(config.exclude.list) ELSE Absent,
            directOnly |-> IF config.directOnly # "unset"
                           THEN Value(Boolean(config.directOnly)) ELSE NoBool,
            output |-> config.output,
            additionalSources |-> Absent])

\* module.default || module: a module without a truthy default export gives
\* its namespace object, which has none of the configuration keys
moduleDefault(raw) ==
    IF raw.root \in {"undefined", "null"} THEN EmptyRaw("object") ELSE raw

loadConfigFile(dir, fileName) ==
    LET file == dir.files[fileName]
    IN  IF endsWith(fileName, ".json")
        THEN IF file.state = "broken" THEN ConfigRaised(<<"SyntaxError">>)
             ELSE validateConfig(file.raw)
        ELSE IF endsWith(fileName, ".yaml") \/ endsWith(fileName, ".yml")
        THEN IF file.state = "broken" THEN ConfigRaised(<<"Error">>)
             ELSE validateConfig(file.raw)
        ELSE LET r == IF file.state = "broken" THEN ConfigRaised(<<"Error">>)
                      ELSE validateConfig(moduleDefault(file.raw))
             IN  IF r.status = "raised"
                 THEN ConfigRaised(<<"Failed to load config from ", fileName, ": ">>
                                   \o r.message)
                 ELSE r

\* the index in CONFIG_FILES of the first file that exists, 0 when none does
RECURSIVE FirstExisting(_, _)
FirstExisting(dir, i) ==
    IF i > Len(CONFIG_FILES) THEN 0
    ELSE IF dir.files[CONFIG_FILES[i]].state # "missing" THEN i
    ELSE FirstExisting(dir, i + 1)

loadConfig(dir) ==
    LET i == FirstExisting(dir, 1)
    IN  IF i > 0 THEN loadConfigFile(dir, CONFIG_FILES[i])
        ELSE IF /\ dir.pkg.state = "ok"
                /\ dir.pkg.vskills.root \in {"object", "array"}
        THEN LET r == validateConfig(dir.pkg.vskills)
             IN  IF r.status = "raised" THEN NullReturned ELSE r
        ELSE NullReturned

\* a ?? b
Coalesce(a, b) == IF a.defined THEN a ELSE b

\* mergeConfig with || in place of ?? for directOnly
mergeConfigOr(cliOptions, fileConfig) ==
    IF fileConfig.null THEN cliOptions
    ELSE [include |-> Coalesce(cliOptions.include, fileConfig.config.include),
          exclude |-> Coalesce(cliOptions.exclude, fileConfig.config.exclude),
          directOnly |-> IF cliOptions.directOnly.defined /\ cliOptions.directOnly.value
                         THEN cliOptions.directOnly ELSE fileConfig.config.directOnly,
          output |-> Coalesce(cliOptions.output, fileConfig.config.output),
          additionalSources |-> Absent]

mergeConfig(cliOptions, fileConfig) ==
    IF fileConfig.null THEN cliOptions
    ELSE [include |-> Coalesce(cliOptions.include, fileConfig.config.include),
          exclude |-> Coalesce(cliOptions.exclude, fileConfig.config.exclude),
          directOnly |-> Coalesce(cliOptions.directOnly, fileConfig.config.directOnly),
          output |-> Coalesce(cliOptions.output, fileConfig.config.output),
          additionalSources |-> Absent]

MissingFile == [state |-> "missing", raw |-> EmptyRaw("undefined")]

BrokenFile == [state |-> "broken", raw |-> EmptyRaw("undefined")]

OkFile(raw) == [state |-> "ok", raw |-> raw]

MissingPkg == [state |-> "missing", vskills |-> EmptyRaw("undefined")]

BrokenPkg == [state |-> "broken", vskills |-> EmptyRaw("undefined")]

OkPkg(vskills) == [state |-> "ok", vskills |-> vskills]

\* the configuration the tests write: { exclude: ['from-<source>'] }
Marker(source) == [EmptyRaw("object") EXCEPT !.exclude = JsonField("array", <<source>>)]

FullRaw ==
    [root |-> "object", include |-> JsonField("array", <<"react">>),
     exclude |-> JsonField("array", <<"typescript">>), directOnly |-> "true",
     output |-> Value("custom-output"),
     additionalSources |-> JsonField("array", <<"docs/GUIDE.md">>)]

\* objects with no field, with one field, or with every field
RawObjects ==
    { EmptyRaw("object"), FullRaw }
    \cup { [EmptyRaw("object") EXCEPT !.include = f] :
             f \in { JsonField("array", <<"react">>), JsonField("other", <<>>) } }
    \cup { [EmptyRaw("object") EXCEPT !.exclude = f] :
             f \in { JsonField("array", <<"typescript">>), JsonField("other", <<>>) } }
    \cup { [EmptyRaw("object") EXCEPT !.directOnly = d] : d \in {"true", "false", "string"} }
    \cup { [EmptyRaw("object") EXCEPT !.output = Value("custom-output")],
           [EmptyRaw("object") EXCEPT !.additionalSources =
                                          JsonField("array", <<"docs/GUIDE.md">>)] }

RawConfigs == RawObjects \cup { EmptyRaw("null"), EmptyRaw("string"), EmptyRaw("array") }

\* what a file of that name can hold: parseYaml always returns an object
FileStates(fileName) ==
    { BrokenFile }
    \cup { OkFile(raw) : raw \in IF endsWith(fileName, ".yaml") \/ endsWith(fileName, ".yml")
                                 THEN RawObjects ELSE RawConfigs }

PkgStates == { BrokenPkg, OkPkg(EmptyRaw("undefined")) } \cup { OkPkg(raw) : raw \in RawConfigs }

\* directories in which every source holds its marker configuration
PlainDirs ==
    { [files |-> [ n \in ConfigFileNames |->
                     IF n \in existing THEN OkFile(Marker(n)) ELSE MissingFile ],
       pkg |-> pkg] :
        existing \in SUBSET ConfigFileNames,
        pkg \in { MissingPkg, OkPkg(Marker("package.json")) } }

\* the same directories with one source holding any content
ConfigDirs ==
    PlainDirs
    \cup UNION { { [d EXCEPT !.files[n] = f] : d \in PlainDirs, f \in FileStates(n) } :
                 n \in ConfigFileNames }
    \cup { [d EXCEPT !.pkg = p] : d \in PlainDirs, p \in PkgStates }

CliOptions ==
    { NoConfig }
    \cup { [NoConfig EXCEPT !.include = Given(<<"cli-include">>)],
           [NoConfig EXCEPT !.exclude = Given(<<"cli-exclude">>)],
           [NoConfig EXCEPT !.output = Value("cli-output")],
           [NoConfig EXCEPT !.additionalSources = Given(<<"cli-docs.md">>)] }
    \cup { [NoConfig EXCEPT !.directOnly = Value(b)] : b \in BOOLEAN }
    \cup { [include |-> Given(<<"cli-include">>), exclude |-> Given(<<"cli-exclude">>),
            directOnly |-> Value(b), output |-> Value("cli-output"),
            additionalSources |-> Given(<<"cli-docs.md">>)] : b \in BOOLEAN }

EmptyDir == [files |-> [ n \in ConfigFileNames |-> MissingFile ], pkg |-> MissingPkg]

CfgIdle ==
    /\ cfgDir = EmptyDir
    /\ cfgPc = "idle"
    /\ cfgLoaded = NullReturned
    /\ cfgCli = NoConfig
    /\ cfgMerged = NoConfig

CfgInit ==
    /\ cfgDir \in ConfigDirs
    /\ cfgPc = "load"
    /\ cfgLoaded = NullReturned
    /\ cfgCli = NoConfig
    /\ cfgMerged = NoConfig

\* const fileConfig = await loadConfig(cwd)
LoadConfig ==
    /\ cfgPc = "load"
    /\ LET r == loadConfig(cfgDir)
       IN  /\ cfgLoaded' = r
           /\ cfgPc' = IF r.status = "raised" THEN "raised" ELSE "loaded"
    /\ UNCHANGED <<cfgDir, cfgCli, cfgMerged>>
    /\ UNCHANGED <<coreVars, globVars, clVars, regenVars, docVars>>

\* const mergedConfig = mergeConfig(cliOptions, fileConfig)
MergeConfig ==
    /\ cfgPc = "loaded"
    /\ \E cli \in CliOptions :
          /\ cfgCli' = cli
          /\ cfgMerged' = mergeConfig(cli, cfgLoaded)
    /\ cfgPc' = "merged"
    /\ UNCHANGED <<cfgDir, cfgLoaded>>
    /\ UNCHANGED <<coreVars, globVars, clVars, regenVars, docVars>>

CfgNext == LoadConfig \/ MergeConfig

(***************************************************************************)
(* Claims about the configuration.                                         *)
(***************************************************************************)

Exists(fileName) == cfgDir.files[fileName].state # "missing"

LoadReturned == cfgPc \in {"loaded", "raised", "merged"}

\* C17: when v-skills.config.mjs exists next to v-skills.config.js, or next to
\* the .json or .yaml file, loadConfig gives what loading the .mjs file gives.
C17_MjsWins ==
    ( /\ LoadReturned
      /\ Exists("v-skills.config.mjs")
      /\ \/ Exists("v-skills.config.js")
         \/ Exists("v-skills.config.json")
         \/ Exists("v-skills.config.yaml") )
    => cfgLoaded = loadConfigFile(cfgDir, "v-skills.config.mjs")

\* the part of C17 that the order of CONFIG_FILES gives
C17_MjsOverJsonYaml ==
    ( /\ LoadReturned
      /\ Exists("v-skills.config.mjs")
      /\ ~Exists("v-skills.config.js") )
    => cfgLoaded = loadConfigFile(cfgDir, "v-skills.config.mjs")

\* the configuration value of the source loadConfig reads in this directory
SourceRaw ==
    LET i == FirstExisting(cfgDir, 1)
    IN  IF i > 0
        THEN [present |-> cfgDir.files[CONFIG_FILES[i]].state = "ok",
              raw |-> cfgDir.files[CONFIG_FILES[i]].raw]
        ELSE [present |-> cfgDir.pkg.state = "ok" /\ cfgDir.pkg.vskills.root # "undefined",
              raw |-> cfgDir.pkg.vskills]

SchemaInvalid(raw) ==
    \/ raw.root # "object"
    \/ raw.include.kind = "other"
    \/ raw.exclude.kind = "other"

\* C18: whichever source holds the configuration, a schema-invalid value
\* (non-object root, include or exclude that is not an array) makes
\* loadConfig raise an error with a message.
C18_InvalidConfigRaises ==
    (LoadReturned /\ SourceRaw.present /\ SchemaInvalid(SourceRaw.raw))
    => (cfgLoaded.status = "raised" /\ cfgLoaded.message # <<>>)

\* the part of C18 that holds: an include or exclude that is not an array, or
\* a string root, in a configuration file
C18_InvalidFileRaises ==
    ( /\ LoadReturned
      /\ FirstExisting(cfgDir, 1) > 0
      /\ SourceRaw.present
      /\ \/ SourceRaw.raw.root = "string"
         \/ SourceRaw.raw.include.kind = "other"
         \/ SourceRaw.raw.exclude.kind = "other" )
    => (cfgLoaded.status = "raised" /\ cfgLoaded.message # <<>>)

MergedFields == {"include", "exclude", "directOnly", "output"}

\* C19: for include, exclude, directOnly and output the merged options hold
\* the CLI value when the CLI defines the field and the file value otherwise;
\* without a file configuration the merged options are the CLI options.
C19_CliOverridesPerField ==
    (cfgPc = "merged") =>
        IF cfgLoaded.null THEN cfgMerged = cfgCli
        ELSE \A f \in MergedFields :
                cfgMerged[f] = IF cfgCli[f].defined THEN cfgCli[f] ELSE cfgLoaded.config[f]

C19_Witness ==
    /\ cfgPc = "merged"
    /\ ~cfgLoaded.null
    /\ cfgCli.directOnly = Value(FALSE)
    /\ cfgLoaded.config.directOnly = Value(TRUE)
    /\ cfgCli.include.defined
    /\ cfgLoaded.config.include.defined
    /\ cfgLoaded.config.include # cfgCli.include
    /\ cfgMerged.directOnly = Value(FALSE)
    /\ cfgMerged.include = cfgCli.include

\* additionalSources as the source's configuration gives it
SourceAdditional ==
    IF SourceRaw.present /\ SourceRaw.raw.additionalSources.kind = "array"
    THEN Given(SourceRaw.raw.additionalSources.list) ELSE Absent

\* C20: the merged options hold the CLI's additionalSources when the CLI
\* defines it and otherwise the list of the loaded configuration, unchanged.
C20_AdditionalSourcesKept ==
    (cfgPc = "merged") =>
        cfgMerged.additionalSources =
            IF cfgCli.additionalSources.defined THEN cfgCli.additionalSources
            ELSE SourceAdditional

(***************************************************************************)
(* The Repository line of the document (linker.ts).  A URL is a sequence   *)
(* of pieces; "git+" and ".git" are the pieces the two regular             *)
(* expressions of getRepositoryUrl look for.                               *)
(***************************************************************************)
MaxUrlLen == 3

UrlPieces == {"git+", "https://github.com/user/repo", ".git"}

RECURSIVE SeqsUpTo(_, _)
SeqsUpTo(S, n) ==
    IF n = 0 THEN {<<>>}
    ELSE LET shorter == SeqsUpTo(S, n - 1)
         IN  shorter \cup { Append(q, e) : q \in { t \in shorter : Len(t) = n - 1 }, e \in S }

Urls == SeqsUpTo(UrlPieces, MaxUrlLen)

\* pkg.repository: undefined, a string, or an object with an optional url
Repositories ==
    { [kind |-> "undefined", url |-> Absent], [kind |-> "object", url |-> Absent] }
    \cup { [kind |-> k, url |-> Given(u)] : k \in {"string", "object"}, u \in Urls }

\* url.replace(/^git\+/, '')
StripGitPlus(url) == IF url # <<>> /\ Head(url) = "git+" THEN Tail(url) ELSE url

\* url.replace(/\.git$/, '')
StripDotGit(url) ==
    IF url # <<>> /\ url[Len(url)] = ".git" THEN SubSeq(url, 1, Len(url) - 1) ELSE url

getRepositoryUrl(repo) ==
    IF repo.kind = "undefined" \/ (repo.kind = "string" /\ repo.url.list = <<>>)
    THEN Absent
    ELSE IF repo.kind = "string" THEN repo.url
    ELSE IF ~repo.url.defined THEN Absent
    ELSE Given(StripDotGit(StripGitPlus(repo.url.list)))

NoLine == [present |-> FALSE, url |-> <<>>]

\* if (repoUrl) lines.push(`**Repository:** ${repoUrl}`)
repositoryLine(repo) ==
    LET repoUrl == getRepositoryUrl(repo)
    IN  IF repoUrl.defined /\ repoUrl.list # <<>>
        THEN [present |-> TRUE, url |-> repoUrl.list]
        ELSE NoLine

RepoIdle ==
    /\ repoIn = [kind |-> "undefined", url |-> Absent]
    /\ repoPc = "idle"
    /\ repoLine = NoLine

RepoInit ==
    /\ repoIn \in Repositories
    /\ repoPc = "call"
    /\ repoLine = NoLine

RenderRepository ==
    /\ repoPc = "call"
    /\ repoLine' = repositoryLine(repoIn)
    /\ repoPc' = "rendered"
    /\ UNCHANGED <<repoIn, gatherVars>>
    /\ UNCHANGED <<coreVars, globVars, clVars, regenVars, cfgVars>>

RepoNext == RenderRepository

\* the URL without a leading 'git+' and without a trailing '.git'
Normalized(url) ==
    LET a == IF Len(url) > 0 /\ url[1] = "git+" THEN SubSeq(url, 2, Len(url)) ELSE url
    IN  IF Len(a) > 0 /\ a[Len(a)] = ".git" THEN SubSeq(a, 1, Len(a) - 1) ELSE a

\* C21: for a repository given as a string or as an object with a url, the
\* Repository line shows the URL without a leading 'git+' and a trailing
\* '.git' (a URL with neither is shown as it is).
C21_RepositoryNormalized ==
    ( /\ repoPc = "rendered"
      /\ repoIn.url.defined
      /\ Normalized(repoIn.url.list) # <<>> )
    => (repoLine.present /\ repoLine.url = Normalized(repoIn.url.list))

\* the part of C21 that holds: the object form is normalized, the string form
\* is shown as written
C21_ObjectNormalized ==
    ( /\ repoPc = "rendered"
      /\ repoIn.url.defined
      /\ Normalized(repoIn.url.list) # <<>> )
    => /\ repoIn.kind = "object" =>
             (repoLine.present /\ repoLine.url = Normalized(repoIn.url.list))
       /\ repoIn.kind = "string" =>
             (repoLine.present /\ repoLine.url = repoIn.url.list)

(***************************************************************************)
(* The documentation gatherer (traverse.ts): findDocsFolder with           *)
(* scanDocsFolder, findTypeDefinitions and the extra documentation files   *)
(* of gatherDocumentation.  File names inside a docs folder are sequences  *)
(* of characters; the names of the other files are never inspected and     *)
(* are strings.                                                            *)
(***************************************************************************)
MaxDepth == 3

SeqEndsWith(s, p) == Len(s) >= Len(p) /\ SubSeq(s, Len(s) - Len(p) + 1, Len(s)) = p

\* name.toLowerCase(), for the upper-case letters of the model's alphabet
toLowerCase(s) ==
    [ i \in 1..Len(s) |-> CASE s[i] = "M" -> "m" [] s[i] = "D" -> "d" [] OTHER -> s[i] ]

docExtensions ==
    << <<".", "m", "d">>, <<".", "m", "a", "r", "k", "d", "o", "w", "n">>,
       <<".", "t", "x", "t">>, <<".", "r", "s", "t">>, <<".", "a", "d", "o", "c">> >>

isDocFile(name) ==
    \E i \in 1..Len(docExtensions) : SeqEndsWith(toLowerCase(name), docExtensions[i])

\* prefix.split('/').length: the empty prefix splits into one empty piece
SplitLength(prefix) == IF prefix = <<>> THEN 1 ELSE Len(prefix)

\* scanDocsFolder without the limit on the nesting
RECURSIVE scanDocsFolderUnbounded(_, _)
scanDocsFolderUnbounded(dir, prefix) ==
    IF ~dir.readable THEN <<>>
    ELSE LET files[i \in 0..Len(dir.entries)] ==
                 IF i = 0 THEN <<>>
                 ELSE LET entry == dir.entries[i]
                          relativePath == Append(prefix, entry.name)
                      IN  files[i - 1] \o
                          ( IF entry.kind = "dir"
                            THEN scanDocsFolderUnbounded(entry.dir, relativePath)
                            ELSE IF entry.kind = "file" /\ isDocFile(entry.name)
                            THEN <<relativePath>>
                            ELSE <<>> )
         IN  files[Len(dir.entries)]

\* scanDocsFolder(docsPath, prefix): the relative paths of the files listed,
\* each a sequence of names; an unreadable directory lists nothing
RECURSIVE scanDocsFolder(_, _)
scanDocsFolder(dir, prefix) ==
    IF ~dir.readable THEN <<>>
    ELSE LET files[i \in 0..Len(dir.entries)] ==
                 IF i = 0 THEN <<>>
                 ELSE LET entry == dir.entries[i]
                          relativePath == Append(prefix, entry.name)
                      IN  files[i - 1] \o
                          ( IF entry.kind = "dir"
                            THEN IF SplitLength(prefix) < 2
                                 THEN scanDocsFolder(entry.dir, relativePath)
                                 ELSE <<>>
                            ELSE IF entry.kind = "file" /\ isDocFile(entry.name)
                            THEN <<relativePath>>
                            ELSE <<>> )
         IN  files[Len(dir.entries)]

possibleNames == <<"docs", "doc", "documentation", "Docs", "Doc">>

NoDocsFolder == [found |-> FALSE, path |-> "", files |-> <<>>]

\* the loop of findDocsFolder from candidate i on: stat throws for a missing
\* path and the candidate is skipped
RECURSIVE FindDocsFrom(_, _)
FindDocsFrom(pkg, i) ==
    IF i > Len(possibleNames) THEN NoDocsFolder
    ELSE LET d == pkg.docsDirs[possibleNames[i]]
             files == scanDocsFolder(d.dir, <<>>)
         IN  IF d.state = "dir" /\ Len(files) > 0
             THEN [found |-> TRUE, path |-> possibleNames[i], files |-> files]
             ELSE FindDocsFrom(pkg, i + 1)

findDocsFolder(pkg) == FindDocsFrom(pkg, 1)

\* a manifest field is "unset", "empty" (the empty string), "nonstring" (a
\* truthy value that is no string: path.join throws) or a file name
FieldTruthy(f) == f \notin {"unset", "empty"}

TypesScope == <<"@", "t", "y", "p", "e", "s", "/">>

typesPackageName(packageName) ==
    IF StartsWith(packageName, <<"@">>)
    THEN LET parts == Split(Tail(packageName))
         IN  TypesScope \o parts[1] \o <<"_", "_">> \o parts[2]
    ELSE TypesScope \o packageName

NoTypes == [kind |-> "null", dir |-> <<>>, file |-> "", fromDefinitelyTyped |-> FALSE]

TypesThrew == [kind |-> "threw", dir |-> <<>>, file |-> "", fromDefinitelyTyped |-> FALSE]

TypesFound(dir, file, fromDefinitelyTyped) ==
    [kind |-> "found", dir |-> dir, file |-> file,
     fromDefinitelyTyped |-> fromDefinitelyTyped]

\* the third step of findTypeDefinitions alone
CompanionTypes(pkg) ==
    LET c == pkg.companion
        typesFile == IF FieldTruthy(c.types) THEN c.types
                     ELSE IF FieldTruthy(c.typings) THEN c.typings ELSE "index.d.ts"
    IN  IF c.present /\ c.name = typesPackageName(pkg.name)
        THEN IF typesFile = "nonstring" THEN TypesThrew
             ELSE IF typesFile \in c.files
             THEN TypesFound(c.name, typesFile, TRUE)
             ELSE NoTypes
        ELSE NoTypes

\* findTypeDefinitions asking the companion package before index.d.ts
findTypeDefinitionsCompanionFirst(pkg) ==
    LET typesField == IF FieldTruthy(pkg.types) THEN pkg.types ELSE pkg.typings
    IN  IF FieldTruthy(typesField) /\ typesField = "nonstring" THEN TypesThrew
        ELSE IF FieldTruthy(typesField) /\ typesField \in pkg.files
        THEN TypesFound(pkg.name, typesField, FALSE)
        ELSE IF CompanionTypes(pkg).kind # "null" THEN CompanionTypes(pkg)
        ELSE IF "index.d.ts" \in pkg.files
        THEN TypesFound(pkg.name, "index.d.ts", FALSE)
        ELSE NoTypes

findTypeDefinitions(pkg) ==
    LET typesField == IF FieldTruthy(pkg.types) THEN pkg.types ELSE pkg.typings
    IN  IF FieldTruthy(typesField) /\ typesField = "nonstring" THEN TypesThrew
        ELSE IF FieldTruthy(typesField) /\ typesField \in pkg.files
        THEN TypesFound(pkg.name, typesField, FALSE)
        ELSE IF "index.d.ts" \in pkg.files
        THEN TypesFound(pkg.name, "index.d.ts", FALSE)
        ELSE CompanionTypes(pkg)

defaultAdditional ==
    << "CONTRIBUTING.md", "contributing.md", "ARCHITECTURE.md", "architecture.md",
       "API.md", "api.md", "GUIDE.md", "guide.md", "USAGE.md", "usage.md" >>

\* the additionalDocs of gatherDocumentation: the names pushed, in order
additionalDocs(pkg) ==
    LET sourcesToCheck ==
            defaultAdditional \o
            (IF pkg.additionalSources.defined THEN pkg.additionalSources.list ELSE <<>>)
    IN  SelectSeq(sourcesToCheck, LAMBDA source : source \in pkg.extraFiles)

(***************************************************************************)
(* The package directories the gatherer is run on.                         *)
(***************************************************************************)
EmptyDocsDir == [readable |-> TRUE, entries |-> <<>>]

DocFile(name) == [name |-> name, kind |-> "file", dir |-> EmptyDocsDir]

\* the files of one directory level
LevelFiles ==
    { <<>>,
      << DocFile(<<"a", ".", "m", "d">>) >>,
      << DocFile(<<"x", ".", "j", "s">>), DocFile(<<"R", ".", "M", "D">>) >>,
      << DocFile(<<"m", "d">>), DocFile(<<"n", ".", "t", "x", "t">>) >> }

\* the directory trees of nesting at most n: the files of the level and at
\* most one entry "sub" that is a directory, an unreadable directory or a
\* symbolic link to a directory
RECURSIVE DocTrees(_)
DocTrees(n) ==
    LET subs == { [name |-> <<"s", "u", "b">>, kind |-> "dir",
                   dir |-> [readable |-> FALSE, entries |-> <<>>]],
                  [name |-> <<"s", "u", "b">>, kind |-> "linkdir", dir |-> EmptyDocsDir] }
                \cup (IF n = 0 THEN {}
                      ELSE { [name |-> <<"s", "u", "b">>, kind |-> "dir", dir |-> t] :
                               t \in DocTrees(n - 1) })
    IN  { [readable |-> TRUE, entries |-> f] : f \in LevelFiles }
        \cup { [readable |-> TRUE, entries |-> <<s>> \o f] : s \in subs, f \in LevelFiles }

MissingDocs == [state |-> "missing", dir |-> EmptyDocsDir]

DocsDir(tree) == [state |-> "dir", dir |-> tree]

OneFileTree == [readable |-> TRUE, entries |-> << DocFile(<<"a", ".", "m", "d">>) >>]

NoCompanion ==
    [present |-> FALSE, name |-> <<>>, types |-> "unset", typings |-> "unset", files |-> {}]

DefaultPkg ==
    [name |-> <<"a">>,
     docsDirs |-> [ n \in { possibleNames[i] : i \in 1..Len(possibleNames) } |-> MissingDocs ],
     types |-> "unset", typings |-> "unset", files |-> {},
     companion |-> NoCompanion,
     extraFiles |-> {}, additionalSources |-> Absent]

\* package directories that differ in their docs folders
DocsPkgs ==
    { [DefaultPkg EXCEPT !.docsDirs["docs"] = d, !.docsDirs["doc"] = e,
                         !.docsDirs["Docs"] = f] :
        d \in { MissingDocs, [state |-> "file", dir |-> EmptyDocsDir] }
              \cup { DocsDir(t) : t \in DocTrees(MaxDepth) },
        e \in { MissingDocs, DocsDir(EmptyDocsDir), DocsDir(OneFileTree) },
        f \in { MissingDocs, DocsDir(OneFileTree) } }

\* package directories that differ in their type definitions
TypesPkgs ==
    { [DefaultPkg EXCEPT !.name = n, !.types = t, !.typings = ty, !.files = fs,
                         !.companion = c] :
        n \in { <<"a">>, <<"@", "s", "/", "a">> },
        t \in { "unset", "empty", "lib.d.ts", "nonstring" },
        ty \in { "unset", "typ.d.ts" },
        fs \in SUBSET { "lib.d.ts", "typ.d.ts", "index.d.ts" },
        c \in { NoCompanion }
              \cup { [present |-> TRUE, name |-> cn, types |-> ct, typings |-> "unset",
                      files |-> cf] :
                       cn \in { TypesScope \o <<"a">>, TypesScope \o <<"s", "_", "_", "a">> },
                       ct \in { "unset", "main.d.ts" },
                       cf \in { {}, {"index.d.ts"}, {"main.d.ts"} } } }

\* package directories that differ in their extra documentation files
ExtraPkgs ==
    { [DefaultPkg EXCEPT !.extraFiles = fs, !.additionalSources = a] :
        fs \in SUBSET { "API.md", "api.md", "GUIDE.md", "NOTES.md" },
        a \in { Absent, Given(<<>>), Given(<<"NOTES.md">>), Given(<<"API.md">>),
                Given(<<"NOTES.md", "API.md">>) } }

GatherPkgs == DocsPkgs \cup TypesPkgs \cup ExtraPkgs

NoGathered ==
    [docsPath |-> NoDocsFolder.path, docFiles |-> <<>>, hasDocs |-> FALSE,
     types |-> NoTypes, additionalDocs |-> <<>>]

GatherIdle ==
    /\ gatherPkg = DefaultPkg
    /\ gatherPc = "idle"
    /\ gatherDocs = NoGathered

GatherInit ==
    /\ gatherPkg \in GatherPkgs
    /\ gatherPc = "docs"
    /\ gatherDocs = NoGathered

\* 4. Find docs/ folder
FindDocsFolder ==
    /\ gatherPc = "docs"
    /\ LET docsFolder == findDocsFolder(gatherPkg)
       IN  gatherDocs' = IF docsFolder.found
                         THEN [gatherDocs EXCEPT !.docsPath = docsFolder.path,
                                                 !.docFiles = docsFolder.files,
                                                 !.hasDocs = TRUE]
                         ELSE gatherDocs
    /\ gatherPc' = "types"
    /\ UNCHANGED <<gatherPkg, repoVars>>
    /\ UNCHANGED <<coreVars, globVars, clVars, regenVars, cfgVars>>

\* 5. Find TypeScript types
FindTypeDefinitions ==
    /\ gatherPc = "types"
    /\ LET typesInfo == findTypeDefinitions(gatherPkg)
       IN  /\ gatherDocs' = IF typesInfo.kind = "found"
                            THEN [gatherDocs EXCEPT !.types = typesInfo]
                            ELSE gatherDocs
           /\ gatherPc' = IF typesInfo.kind = "threw" THEN "raised" ELSE "extra"
    /\ UNCHANGED <<gatherPkg, repoVars>>
    /\ UNCHANGED <<coreVars, globVars, clVars, regenVars, cfgVars>>

\* 6. Find additional documentation files
FindAdditional ==
    /\ gatherPc = "extra"
    /\ gatherDocs' = [gatherDocs EXCEPT !.additionalDocs = additionalDocs(gatherPkg)]
    /\ gatherPc' = "done"
    /\ UNCHANGED <<gatherPkg, repoVars>>
    /\ UNCHANGED <<coreVars, globVars, clVars, regenVars, cfgVars>>

GatherNext == FindDocsFolder \/ FindTypeDefinitions \/ FindAdditional

DocIdle == RepoIdle /\ GatherIdle

(***************************************************************************)
(* Claims about the gatherer.                                              *)
(***************************************************************************)
TypesStepDone == gatherPc \in {"extra", "done"}

OwnField == IF FieldTruthy(gatherPkg.types) THEN gatherPkg.types ELSE gatherPkg.typings

OwnTypes == FieldTruthy(OwnField) /\ OwnField \in gatherPkg.files

RootIndex == "index.d.ts" \in gatherPkg.files

\* the directory of the companion package for the name: @types/name, or
\* @types/scope__name for @scope/name
CompanionDir ==
    IF gatherPkg.name = <<"@", "s", "/", "a">>
    THEN <<"@", "t", "y", "p", "e", "s", "/", "s", "_", "_", "a">>
    ELSE <<"@", "t", "y", "p", "e", "s", "/">> \o gatherPkg.name

CompanionFile ==
    IF FieldTruthy(gatherPkg.companion.types) THEN gatherPkg.companion.types
    ELSE "index.d.ts"

CompanionHasTypes ==
    /\ gatherPkg.companion.present
    /\ gatherPkg.companion.name = CompanionDir
    /\ CompanionFile \in gatherPkg.companion.files

\* C23: the type definitions are the file of the package's own types/typings
\* field if it exists, else index.d.ts of the package if present, else the
\* types file of the companion package if it exists; the companion flag is
\* set exactly for the third source, and no path is reported when all fail.
C23_TypesOrder ==
    TypesStepDone =>
        gatherDocs.types =
            IF OwnTypes THEN TypesFound(gatherPkg.name, OwnField, FALSE)
            ELSE IF RootIndex THEN TypesFound(gatherPkg.name, "index.d.ts", FALSE)
            ELSE IF CompanionHasTypes THEN TypesFound(CompanionDir, CompanionFile, TRUE)
            ELSE NoTypes

\* C23 witness: a scoped package without types of its own whose companion
\* package @types/s__a supplies them
C23_Witness ==
    /\ gatherPc = "done"
    /\ gatherPkg.name = <<"@", "s", "/", "a">>
    /\ ~OwnTypes /\ ~RootIndex
    /\ gatherDocs.types.kind = "found"
    /\ gatherDocs.types.fromDefinitelyTyped
    /\ gatherDocs.types.dir = <<"@", "t", "y", "p", "e", "s", "/", "s", "_", "_", "a">>

DocsStepDone == gatherPc \in {"types", "extra", "done", "raised"}

ExistingDocsDirs ==
    { i \in 1..Len(possibleNames) : gatherPkg.docsDirs[possibleNames[i]].state = "dir" }

FirstDocsDir == CHOOSE i \in ExistingDocsDirs : \A j \in ExistingDocsDirs : i <= j

\* C24: the docs folder reported is the first existing directory of the
\* candidate order, reported only when it yields a documentation file;
\* otherwise no docs folder is reported.
C24_FirstExistingDocsDir ==
    DocsStepDone =>
        IF /\ ExistingDocsDirs # {}
           /\ scanDocsFolder(gatherPkg.docsDirs[possibleNames[FirstDocsDir]].dir, <<>>) # <<>>
        THEN gatherDocs.hasDocs /\ gatherDocs.docsPath = possibleNames[FirstDocsDir]
        ELSE ~gatherDocs.hasDocs

\* what holds instead: the first candidate that is a directory and yields a
\* documentation file is reported
C24_FirstYieldingDocsDir ==
    DocsStepDone =>
        LET yielding == { i \in ExistingDocsDirs :
                            scanDocsFolder(gatherPkg.docsDirs[possibleNames[i]].dir, <<>>)
                                # <<>> }
        IN  IF yielding = {} THEN ~gatherDocs.hasDocs
            ELSE /\ gatherDocs.hasDocs
                 /\ \E i \in yielding : /\ \A j \in yielding : i <= j
                                        /\ gatherDocs.docsPath = possibleNames[i]

\* the entry at a relative path below a docs directory
RECURSIVE EntryAt(_, _)
EntryAt(dir, path) ==
    LET hits == { i \in 1..Len(dir.entries) : dir.entries[i].name = Head(path) }
    IN  IF hits = {} THEN [name |-> <<>>, kind |-> "none", dir |-> EmptyDocsDir]
        ELSE LET e == dir.entries[CHOOSE i \in hits : TRUE]
             IN  IF Len(path) = 1 THEN e ELSE EntryAt(e.dir, Tail(path))

HasDocExtension(name) ==
    \E ext \in { <<".", "m", "d">>, <<".", "m", "a", "r", "k", "d", "o", "w", "n">>,
                 <<".", "t", "x", "t">>, <<".", "r", "s", "t">>,
                 <<".", "a", "d", "o", "c">>, <<".", "M", "D">> } :
        SeqEndsWith(name, ext)

\* C25: every listed file lies at most 2 directory levels below the docs
\* folder, is a file of the folder and has a documentation extension.
C25_DocsDepthAndExtension ==
    (DocsStepDone /\ gatherDocs.hasDocs) =>
        \A i \in 1..Len(gatherDocs.docFiles) :
            LET path == gatherDocs.docFiles[i]
            IN  /\ Len(path) - 1 <= 2
                /\ HasDocExtension(path[Len(path)])
                /\ EntryAt(gatherPkg.docsDirs[gatherDocs.docsPath].dir, path).kind = "file"

\* C25 witness: the docs folder holds a documentation file three directory
\* levels down, and the listing holds one from the second level but none
\* from the third
C25_Witness ==
    /\ gatherPc = "done"
    /\ gatherDocs.hasDocs
    /\ gatherDocs.docsPath = "docs"
    /\ LET sub == <<"s", "u", "b">>
           deep == EntryAt(gatherPkg.docsDirs["docs"].dir,
                           <<sub, sub, sub, <<"a", ".", "m", "d">>>>)
       IN  /\ deep.kind = "file"
           /\ \E i \in 1..Len(gatherDocs.docFiles) :
                 gatherDocs.docFiles[i] = <<sub, sub, <<"R", ".", "M", "D">>>>
           /\ \A i \in 1..Len(gatherDocs.docFiles) : Len(gatherDocs.docFiles[i]) <= 3

SuppliedNames ==
    IF gatherPkg.additionalSources.defined
    THEN { gatherPkg.additionalSources.list[i] :
             i \in 1..Len(gatherPkg.additionalSources.list) }
    ELSE {}

DefaultNames == { defaultAdditional[i] : i \in 1..Len(defaultAdditional) }

\* C26: the extra docs are the default and the caller-supplied names whose
\* file exists in the package directory, each recorded exactly once.
C26_ExtraDocsOnce ==
    (gatherPc = "done") =>
        /\ { gatherDocs.additionalDocs[i] : i \in 1..Len(gatherDocs.additionalDocs) }
              = (DefaultNames \cup SuppliedNames) \cap gatherPkg.extraFiles
        /\ \A i, j \in 1..Len(gatherDocs.additionalDocs) :
              gatherDocs.additionalDocs[i] = gatherDocs.additionalDocs[j] => i = j

\* the part of C26 that holds: exactly the existing names are recorded
C26_ExtraDocsExisting ==
    (gatherPc = "done") =>
        { gatherDocs.additionalDocs[i] : i \in 1..Len(gatherDocs.additionalDocs) }
            = (DefaultNames \cup SuppliedNames) \cap gatherPkg.extraFiles

(***************************************************************************)
(* Specifications.                                                         *)
(***************************************************************************)

RestIdle == GlobIdle /\ ClIdle /\ RegenIdle /\ CfgIdle /\ DocIdle

CoreIdle == WalkIdle /\ PnpmIdle /\ DetIdle /\ OutIdle /\ LinkIdle /\ GenIdle

InitWalk == WalkInit /\ PnpmIdle /\ DetIdle /\ OutIdle /\ LinkIdle /\ GenIdle /\ RestIdle

SpecWalk == InitWalk /\ [][WalkNext]_vars

PnpmNext == ParsePnpm

InitPnpm == PnpmInit /\ WalkIdle /\ DetIdle /\ OutIdle /\ LinkIdle /\ GenIdle /\ RestIdle

SpecPnpm == InitPnpm /\ [][PnpmNext]_vars

InitDetect == DetInit /\ WalkIdle /\ PnpmIdle /\ OutIdle /\ LinkIdle /\ GenIdle /\ RestIdle

SpecDetect == InitDetect /\ [][DetNext]_vars

InitLinker == LinkInit /\ OutInit /\ WalkIdle /\ PnpmIdle /\ DetIdle /\ GenIdle /\ RestIdle

SpecLinker == InitLinker /\ [][LinkNext]_vars

InitGen == GenInit /\ OutInit /\ WalkIdle /\ PnpmIdle /\ DetIdle /\ LinkIdle /\ RestIdle

SpecGen == InitGen /\ [][GenNext]_vars

InitGlob == GlobInit /\ CoreIdle /\ ClIdle /\ RegenIdle /\ CfgIdle /\ DocIdle

SpecGlob == InitGlob /\ [][GlobNext]_vars

InitChangelog == ClInit /\ CoreIdle /\ GlobIdle /\ RegenIdle /\ CfgIdle /\ DocIdle

SpecChangelog == InitChangelog /\ [][ClNext]_vars

InitRelink == RelinkInit /\ OutInit /\ WalkIdle /\ PnpmIdle /\ DetIdle /\ GenIdle /\ RestIdle

SpecRelink == InitRelink /\ [][RelinkNext]_vars

InitLayout == LayoutInit /\ OutInit /\ WalkIdle /\ PnpmIdle /\ DetIdle /\ GenIdle /\ RestIdle

SpecLayout == InitLayout /\ [][LayoutNext]_vars

InitRegen == RegenInit /\ OutInit /\ WalkIdle /\ PnpmIdle /\ DetIdle /\ LinkIdle /\ GlobIdle /\ ClIdle
             /\ CfgIdle /\ DocIdle

SpecRegen == InitRegen /\ [][RegenNext]_vars

InitConfig == CfgInit /\ CoreIdle /\ GlobIdle /\ ClIdle /\ RegenIdle /\ DocIdle

SpecConfig == InitConfig /\ [][CfgNext]_vars

InitRepo == RepoInit /\ GatherIdle /\ CoreIdle /\ GlobIdle /\ ClIdle /\ RegenIdle /\ CfgIdle

SpecRepo == InitRepo /\ [][RepoNext]_vars

InitGather == GatherInit /\ RepoIdle /\ CoreIdle /\ GlobIdle /\ ClIdle /\ RegenIdle /\ CfgIdle

SpecGather == InitGather /\ [][GatherNext]_vars

====
